---- MODULE Spec2Model ----
(***************************************************************************)
(* Surface classification and edge-collapse coarsening of pragmatic        *)
(* (src/include/Surface.h: class Surface and class Coarsen).               *)
(*                                                                         *)
(* Conventions.  Vertex, element and facet numbers are 0-based as in the   *)
(* source; a C++ array v[k] is the function v with domain 0..n-1, and the  *)
(* nloc (snloc) vertices of one element (facet) are a tuple, so that       *)
(* n[0] of the source is n[1] here.  Coordinates are integers.  A metric   *)
(* length l is held as lenq(l) = 2*l*l, an integer for integer coordinates *)
(* and integer metrics; lenq is strictly increasing on l >= 0, and the     *)
(* source only ever orders lengths (<, >, ascending sort), so every        *)
(* comparison of the source is the same comparison here.  L_low and L_max  *)
(* are held the same way.                                                  *)
(***************************************************************************)
EXTENDS Integers, Sequences, FiniteSets, TLC

(* ---------------------------------------------------------------------- *)
(* Bounds of the input meshes.                                            *)
(* ---------------------------------------------------------------------- *)
\* cells of the 2D structured grid, x direction
GridNX == 3

(* ---------------------------------------------------------------------- *)
(* Generic helpers.                                                       *)
(* ---------------------------------------------------------------------- *)
Abs(x) == IF x < 0 THEN -x ELSE x

Min2(a, b) == IF a < b THEN a ELSE b

Max2(a, b) == IF a < b THEN b ELSE a

Range(s) == {s[i] : i \in DOMAIN s}

\* ascending sequence of a finite set of integers (iteration order of std::set)
RECURSIVE SetToSeq(_)
SetToSeq(S) ==
  IF S = {} THEN <<>>
  ELSE LET m == CHOOSE x \in S : \A y \in S : x <= y
       IN <<m>> \o SetToSeq(S \ {m})

\* position of the first occurrence of x in s, 0 if none (std::find)
FindFirst(s, x) ==
  IF \E i \in DOMAIN s : s[i] = x
  THEN CHOOSE i \in DOMAIN s : s[i] = x /\ \A j \in 1..(i-1) : s[j] # x
  ELSE 0

\* s without its k-th entry (deque::erase of one position)
RemoveAt(s, k) == [i \in 1..(Len(s)-1) |-> IF i < k THEN s[i] ELSE s[i+1]]

(* ---------------------------------------------------------------------- *)
(* Input meshes: what the file loader hands to Mesh (spec section 6).     *)
(* A mesh is [ndims, NNodes, NElements, coords, metric, ENList].          *)
(* ---------------------------------------------------------------------- *)
\* identity metric, packed upper triangle: 3 entries in 2D, 6 in 3D
IdentityMetric(nd) == IF nd = 2 THEN <<1, 0, 1>> ELSE <<1, 0, 0, 1, 0, 1>>

\* GridNX x 1 cells of unit squares, each cut by the diagonal (i,j)-(i+1,j+1)
GridMesh(nx) ==
  LET w == nx + 1
      vid(i, j) == j * w + i
  IN [ndims |-> 2,
      NNodes |-> 2 * w,
      NElements |-> 2 * nx,
      coords |-> [v \in 0..(2*w - 1) |-> <<v % w, v \div w>>],
      metric |-> [v \in 0..(2*w - 1) |-> IdentityMetric(2)],
      ENList |-> [e \in 0..(2*nx - 1) |->
                    LET i == e \div 2
                    IN IF e % 2 = 0
                       THEN <<vid(i, 0), vid(i+1, 0), vid(i+1, 1)>>
                       ELSE <<vid(i, 0), vid(i+1, 1), vid(i, 1)>>]]

\* 2 x 2 cells around one interior vertex (vertex 4)
SquareMesh ==
  LET vid(i, j) == j * 3 + i
  IN [ndims |-> 2,
      NNodes |-> 9,
      NElements |-> 8,
      coords |-> [v \in 0..8 |-> <<v % 3, v \div 3>>],
      metric |-> [v \in 0..8 |-> IdentityMetric(2)],
      ENList |-> [e \in 0..7 |->
                    LET c == e \div 2
                        i == c % 2
                        j == c \div 2
                    IN IF e % 2 = 0
                       THEN <<vid(i, j), vid(i+1, j), vid(i+1, j+1)>>
                       ELSE <<vid(i, j), vid(i+1, j+1), vid(i, j+1)>>]]

\* a 2D domain whose lower boundary has a shallow notch (vertex 2) below the
\* interior edge (1,3); the metric stretches y so that (1,3) is a short edge
NotchMesh ==
  [ndims |-> 2,
   NNodes |-> 8,
   NElements |-> 6,
   coords |-> [v \in 0..7 |->
                 CASE v = 0 -> <<0, 0>>  [] v = 1 -> <<3, 0>>
                   [] v = 2 -> <<4, -1>> [] v = 3 -> <<5, 0>>
                   [] v = 4 -> <<8, 0>>  [] v = 5 -> <<8, 2>>
                   [] v = 6 -> <<4, 2>>  [] v = 7 -> <<0, 2>>],
   metric |-> [v \in 0..7 |-> <<1, 0, 9>>],
   ENList |-> [e \in 0..5 |->
                 CASE e = 0 -> <<1, 2, 3>> [] e = 1 -> <<1, 3, 6>>
                   [] e = 2 -> <<0, 1, 7>> [] e = 3 -> <<1, 6, 7>>
                   [] e = 4 -> <<3, 4, 5>> [] e = 5 -> <<3, 5, 6>>]]

\* nx x 1 x 1 unit cubes, each cut into 6 tetrahedra around the diagonal
\* (0,0,0)-(1,1,1); BoxMesh(1) is the unit cube of 6 tetrahedra
BoxMesh(nx) ==
  LET w == nx + 1
      vid(i, j, k) == i + w * (j + 2 * k)
      \* corner offsets of the 6 tetrahedra, all of positive volume
      tets == << << <<0,0,0>>, <<1,0,0>>, <<1,1,0>>, <<1,1,1>> >>,
                 << <<0,0,0>>, <<1,0,0>>, <<1,1,1>>, <<1,0,1>> >>,
                 << <<0,0,0>>, <<0,1,0>>, <<1,1,1>>, <<1,1,0>> >>,
                 << <<0,0,0>>, <<0,1,0>>, <<0,1,1>>, <<1,1,1>> >>,
                 << <<0,0,0>>, <<0,0,1>>, <<1,0,1>>, <<1,1,1>> >>,
                 << <<0,0,0>>, <<0,0,1>>, <<1,1,1>>, <<0,1,1>> >> >>
  IN [ndims |-> 3,
      NNodes |-> 4 * w,
      NElements |-> 6 * nx,
      coords |-> [v \in 0..(4*w - 1) |-> <<v % w, (v \div w) % 2, v \div (2*w)>>],
      metric |-> [v \in 0..(4*w - 1) |-> IdentityMetric(3)],
      ENList |-> [e \in 0..(6*nx - 1) |->
                    LET i == e \div 6
                        t == tets[(e % 6) + 1]
                    IN [l \in 1..4 |-> vid(i + t[l][1], t[l][2], t[l][3])]]]

\* a non-convex ring 0..4 (reflex at vertex 1) around the interior vertex 5;
\* in the metric the edges (5,0) and (5,3) are the shortest edges of vertex 5,
\* and moving 5 onto 0 would invert the element (5,1,2)
DartMesh ==
  [ndims |-> 2,
   NNodes |-> 6,
   NElements |-> 5,
   coords |-> [v \in 0..5 |->
                 CASE v = 0 -> <<0, 0>> [] v = 1 -> <<2, 1>>
                   [] v = 2 -> <<4, 0>> [] v = 3 -> <<4, 4>>
                   [] v = 4 -> <<0, 4>> [] v = 5 -> <<2, 2>>],
   metric |-> [v \in 0..5 |-> <<6, -5, 5>>],
   ENList |-> [e \in 0..4 |->
                 CASE e = 0 -> <<5, 0, 1>> [] e = 1 -> <<5, 1, 2>>
                   [] e = 2 -> <<5, 2, 3>> [] e = 3 -> <<5, 3, 4>>
                   [] e = 4 -> <<5, 4, 0>>]]

\* a tall strip whose left side 0-1-2-3 bends by a small angle at 1 and at 2:
\* the facets {0,1} and {1,2}, and {1,2} and {2,3}, are within the coplanar
\* tolerance of each other, {0,1} and {2,3} are not; fan of triangles from 4
ChainMesh ==
  [ndims |-> 2,
   NNodes |-> 6,
   NElements |-> 4,
   coords |-> [v \in 0..5 |->
                 CASE v = 0 -> <<0, 0>> [] v = 1 -> <<0, 10000>>
                   [] v = 2 -> <<3, 20000>> [] v = 3 -> <<9, 30000>>
                   [] v = 4 -> <<10, 0>> [] v = 5 -> <<10, 30000>>],
   metric |-> [v \in 0..5 |-> IdentityMetric(2)],
   ENList |-> [e \in 0..3 |->
                 CASE e = 0 -> <<4, 5, 3>> [] e = 1 -> <<4, 3, 2>>
                   [] e = 2 -> <<4, 2, 1>> [] e = 3 -> <<4, 1, 0>>]]

\* the unit square of 2 triangles with the uniform metric diag(4,4)
UnitSquareMesh ==
  [ndims |-> 2,
   NNodes |-> 4,
   NElements |-> 2,
   coords |-> [v \in 0..3 |-> <<v % 2, v \div 2>>],
   metric |-> [v \in 0..3 |-> <<4, 0, 4>>],
   ENList |-> [e \in 0..1 |-> IF e = 0 THEN <<0, 1, 3>> ELSE <<0, 3, 2>>]]

\* the 3D input is the box of two cubes: its four mid vertices lie on
\* geometric edges of the surface
InputMeshes ==
  {GridMesh(GridNX), SquareMesh, NotchMesh, DartMesh, ChainMesh, UnitSquareMesh,
   BoxMesh(1), BoxMesh(2)}

(* ---------------------------------------------------------------------- *)
(* ElementProperty: signed area / volume (spec section 4.A).  The sign is *)
(* fixed by a reference element so that the reference has positive volume.*)
(* The values are twice the area and six times the volume; the source     *)
(* only uses the sign and the ratio of two of them.                       *)
(* ---------------------------------------------------------------------- *)
RawArea(a, b, c) == (b[1] - a[1]) * (c[2] - a[2]) - (b[2] - a[2]) * (c[1] - a[1])

Det3(u, v, w) ==
    u[1] * (v[2] * w[3] - v[3] * w[2])
  - u[2] * (v[1] * w[3] - v[3] * w[1])
  + u[3] * (v[1] * w[2] - v[2] * w[1])

RawVolume(a, b, c, d) ==
  Det3([k \in 1..3 |-> b[k] - a[k]], [k \in 1..3 |-> c[k] - a[k]], [k \in 1..3 |-> d[k] - a[k]])

\* raw signed measure of the simplex with vertex tuple n under coordinates X
RawMeasure(nd, X, n) ==
  IF nd = 2 THEN RawArea(X[n[1]], X[n[2]], X[n[3]])
  ELSE RawVolume(X[n[1]], X[n[2]], X[n[3]], X[n[4]])

\* orientation of the reference element: the first element with n[0] >= 0
\* (constructor of Coarsen, Surface.h:447-464)
Orientation(m) ==
  LET live == {e \in 0..(m.NElements - 1) : m.ENList[e][1] >= 0}
  IN IF live = {} THEN 1
     ELSE LET e0 == CHOOSE e \in live : \A f \in live : e <= f
          IN IF RawMeasure(m.ndims, m.coords, m.ENList[e0]) < 0 THEN -1 ELSE 1

(* ---------------------------------------------------------------------- *)
(* Mesh (spec section 4.B): adjacency built at load time, edge lengths,   *)
(* and the mutators used by Coarsen.                                      *)
(* ---------------------------------------------------------------------- *)
\* lenq of the metric length of (v,w): d^T (M_v + M_w) d = 2 * d^T Mbar d
calc_edge_length(nd, X, M, v, w) ==
  LET d == [k \in 1..nd |-> X[w][k] - X[v][k]]
      A == [k \in 1..Len(M[v]) |-> M[v][k] + M[w][k]]
  IN IF nd = 2
     THEN A[1]*d[1]*d[1] + 2*A[2]*d[1]*d[2] + A[3]*d[2]*d[2]
     ELSE A[1]*d[1]*d[1] + A[4]*d[2]*d[2] + A[6]*d[3]*d[3]
          + 2*A[2]*d[1]*d[2] + 2*A[3]*d[1]*d[3] + 2*A[5]*d[2]*d[3]

\* live elements of an element list
LiveElements(EN) == {e \in DOMAIN EN : EN[e][1] >= 0}

\* elements incident to v
InitNEList(m) ==
  [v \in 0..(m.NNodes - 1) |-> {e \in LiveElements(m.ENList) : v \in Range(m.ENList[e])}]

\* neighbours of v, ascending
InitNNList(m) ==
  [v \in 0..(m.NNodes - 1) |->
     SetToSeq({w \in 0..(m.NNodes - 1) :
                 w # v /\ \E e \in LiveElements(m.ENList) : {v, w} \subseteq Range(m.ENList[e])})]

\* the edge set: key <<min,max>> |-> [adjacent_elements, length]
InitEdges(m) ==
  LET keys == {p \in (0..(m.NNodes - 1)) \X (0..(m.NNodes - 1)) :
                 p[1] < p[2] /\ \E e \in LiveElements(m.ENList) : {p[1], p[2]} \subseteq Range(m.ENList[e])}
  IN [p \in keys |->
        [adjacent_elements |-> {e \in LiveElements(m.ENList) : {p[1], p[2]} \subseteq Range(m.ENList[e])},
         length |-> calc_edge_length(m.ndims, m.coords, m.metric, p[1], p[2])]]

\* key of the edge (a,b): Edge(a,b) stores (min,max)
EdgeKey(a, b) == <<Min2(a, b), Max2(a, b)>>

\* std::set::insert: no effect if an edge with that key is already there
EdgesInsert(E, key, val) == IF key \in DOMAIN E THEN E ELSE E @@ (key :> val)

\* std::set::erase
EdgesErase(E, key) == [k \in (DOMAIN E) \ {key} |-> E[k]]

\* Mesh::get_node_patch
get_node_patch(NN, v) == Range(NN[v])

\* Mesh::erase_element: the sentinel first vertex = -1 marks a deleted element
erase_element(EN, e) == [EN EXCEPT ![e] = [@ EXCEPT ![1] = -1]]

(* ---------------------------------------------------------------------- *)
(* class Surface: construction (find_surface, calculate_coplanar_ids).    *)
(* ---------------------------------------------------------------------- *)
\* dot-product tolerance COPLANAR_MAGIC_NUMBER = 0.9999999, as a fraction
CoplanarNum == 9999999

CoplanarDen == 10000000

\* order of std::set<index_t> keys in a std::map: lexicographic on the
\* ascending vertex lists
LexLess(A, B) ==
  LET a == SetToSeq(A)
      b == SetToSeq(B)
  IN \/ \E i \in 1..Min2(Len(a), Len(b)) :
           a[i] < b[i] /\ \A j \in 1..(i-1) : a[j] = b[j]
     \/ Len(a) < Len(b) /\ \A j \in 1..Len(a) : a[j] = b[j]

\* the oriented facet stored for the face opposite local vertex j of n
OrientedFacet(snloc, n, j) ==
  IF snloc = 3
  THEN CASE j = 0 -> <<n[2], n[4], n[3]>>
         [] j = 1 -> <<n[3], n[4], n[1]>>
         [] j = 2 -> <<n[1], n[4], n[2]>>
         [] j = 3 -> <<n[1], n[2], n[3]>>
  ELSE <<n[((j+1) % 3) + 1], n[((j+2) % 3) + 1]>>

\* the map facets after the loop over all elements i and local vertices j
\* (step k = i*nloc + j): a vertex set met while it is in the map is erased,
\* otherwise it is inserted, so a set is in the map iff it was met an odd
\* number of times, with the oriented facet of its last insertion
FacetMap(EN, nloc, NE) ==
  LET steps == 0..(NE * nloc - 1)
      face(k) == LET n == EN[k \div nloc]
                 IN {n[(((k % nloc) + kk) % nloc) + 1] : kk \in 1..(nloc - 1)}
      met(F) == {k \in steps : face(k) = F}
      keys == {F \in {face(k) : k \in steps} : Cardinality(met(F)) % 2 = 1}
  IN [F \in keys |->
        LET k == CHOOSE x \in met(F) : \A y \in met(F) : y <= x
        IN OrientedFacet(nloc - 1, EN[k \div nloc], k % nloc)]

\* keys of a facet map in map order
RECURSIVE SortKeys(_)
SortKeys(K) ==
  IF K = {} THEN <<>>
  ELSE LET m == CHOOSE x \in K : \A y \in K \ {x} : LexLess(x, y)
       IN <<m>> \o SortKeys(K \ {m})

\* 2D facet normal as the source computes it, held exactly.  With r = dx/dy
\* the source takes n0 = sqrt(1 - r^2), replaces a NaN n0 (dy = 0 or
\* |dx| > |dy|) by n = (0, 1), else takes n1 = sqrt(1 - n0^2) = |r|, and then
\* negates n0 if dy > 0 and n1 if dx < 0.  The result <<s0, s1, a, b>> stands
\* for n = (s0 * sqrt(1 - (a/b)^2), s1 * a/b); (0, +-1) is held with a = b = 1.
Normal2D(p0, p1) ==
  LET dx == p1[1] - p0[1]
      dy == p1[2] - p0[2]
      s1 == IF dx < 0 THEN -1 ELSE 1
  IN IF dy = 0 \/ Abs(dx) >= Abs(dy)
     THEN <<1, s1, 1, 1>>
     ELSE <<IF dy > 0 THEN -1 ELSE 1, s1, Abs(dx), Abs(dy)>>

\* 3D facet normal: the cross product of two edge vectors.  The source
\* scales it by 1/|n|, which IsCoplanar takes into account; a degenerate
\* facet has n = 0 and its scaled normal is NaN.
Normal3D(p0, p1, p2) ==
  LET x1 == p1[1] - p0[1]
      y1 == p1[2] - p0[2]
      z1 == p1[3] - p0[3]
      x2 == p2[1] - p0[1]
      y2 == p2[2] - p0[2]
      z2 == p2[3] - p0[3]
  IN <<y1*z2 - y2*z1, -x1*z2 + x2*z1, x1*y2 - x2*y1>>

\* n.n' >= 0.9999999 for two 2D normals N, M.  With r, r' < 1 and equal
\* signs of n0 the test is (r -+ r')^2 +- 2e*r*r' <= 2e - e^2, e = 10^-7,
\* evaluated over the common denominator B in integers (B^2 = 10^7*h + l).
\* Exact for |dy| < 10^7.
IsCoplanar2D(N, M) ==
  LET X0 == N[3] = N[4] \/ M[3] = M[4]
      Y0 == N[3] = 0 \/ M[3] = 0
      sig0 == IF X0 THEN 1 ELSE N[1] * M[1]
      sig1 == IF Y0 THEN 1 ELSE N[2] * M[2]
  IN IF sig0 < 0 THEN FALSE
     ELSE IF X0 THEN N[3] = N[4] /\ M[3] = M[4] /\ sig1 > 0
     ELSE LET same == N[4] = M[4]
              B  == IF same \/ M[3] = 0 THEN N[4] ELSE IF N[3] = 0 THEN M[4] ELSE N[4] * M[4]
              A1 == IF same \/ M[3] = 0 \/ N[3] = 0 THEN N[3] ELSE N[3] * M[4]
              A2 == IF same \/ M[3] = 0 \/ N[3] = 0 THEN M[3] ELSE M[3] * N[4]
              L  == (A1 - sig1 * A2) * (A1 - sig1 * A2)
              h  == (B * B) \div CoplanarDen
              l  == (B * B) % CoplanarDen
          IN IF L > (B * B) \div 2500000 THEN FALSE
             ELSE L * CoplanarDen + sig1 * 2 * A1 * A2
                    <= (2 * CoplanarNum + 1) * h + 2 * l - (IF l > 0 THEN 1 ELSE 0)

\* n.n' >= 0.9999999 for the scaled 3D normals of cross products n, m:
\* n.m > 0 and |n x m|^2 * 10^14 <= 19999999 * |n|^2 |m|^2.  A NaN normal
\* passes no comparison.
IsCoplanar3D(n, m) ==
  LET dot == n[1]*m[1] + n[2]*m[2] + n[3]*m[3]
      cx == n[2]*m[3] - n[3]*m[2]
      cy == n[3]*m[1] - n[1]*m[3]
      cz == n[1]*m[2] - n[2]*m[1]
      c  == cx*cx + cy*cy + cz*cz
      Pn == n[1]*n[1] + n[2]*n[2] + n[3]*n[3]
      Pm == m[1]*m[1] + m[2]*m[2] + m[3]*m[3]
  IN IF Pn = 0 \/ Pm = 0 THEN FALSE
     ELSE /\ dot > 0
          /\ \/ c = 0
             \/ /\ (Pn * Pm) \div 5000000 >= c
                /\ Pn * Pm >= 5000000 * c + ((c + 4) \div 4)

\* the test coplanar >= COPLANAR_MAGIC_NUMBER on two normals
IsCoplanar(ref_normal, normal) ==
  IF Len(normal) = 4 THEN IsCoplanar2D(ref_normal, normal)
  ELSE IsCoplanar3D(ref_normal, normal)

\* first facet of S (ascending) other than i, 0 if none: EEList is a vector
\* initialised with zeros
FirstOther(S, i) ==
  LET c == S \ {i}
  IN IF c = {} THEN 0 ELSE CHOOSE f \in c : \A g \in c : f <= g

\* facet-to-facet adjacency EEList
SurfaceEEList(snloc, NS, SEN, SNE) ==
  [i \in 0..(NS - 1) |->
     IF snloc = 2
     THEN [jj \in 1..2 |-> FirstOther(SNE[SEN[i][jj]], i)]
     ELSE [jj \in 1..3 |->
             LET nid1 == SEN[i][(jj % 3) + 1]
                 nid2 == SEN[i][((jj + 1) % 3) + 1]
             IN FirstOther(SNE[nid1] \cap SNE[nid2], i)]]

\* CheckSurrounding comparing with the normal of the current facet sele
\* instead of the normal of the first facet of the patch
RECURSIVE CheckSurroundingCurrentNormal(_, _, _, _, _, _, _)
CheckSurroundingCurrentNormal(st, EE, normals, ref_normal, current_id, sele, i) ==
  IF i > Len(EE[sele]) THEN st
  ELSE LET sele2 == EE[sele][i]
           nst == IF st.ids[sele2] > 0 THEN st
                  ELSE IF IsCoplanar(normals[sele], normals[sele2])
                       THEN [ids |-> [st.ids EXCEPT ![sele2] = current_id],
                             front |-> st.front \cup {sele2}]
                       ELSE st
       IN CheckSurroundingCurrentNormal(nst, EE, normals, ref_normal, current_id, sele, i + 1)

\* the loop over the snloc neighbours of sele, from neighbour i on:
\* st = [ids, front]
RECURSIVE CheckSurrounding(_, _, _, _, _, _, _)
CheckSurrounding(st, EE, normals, ref_normal, current_id, sele, i) ==
  IF i > Len(EE[sele]) THEN st
  ELSE LET sele2 == EE[sele][i]
           nst == IF st.ids[sele2] > 0 THEN st
                  ELSE IF IsCoplanar(ref_normal, normals[sele2])
                       THEN [ids |-> [st.ids EXCEPT ![sele2] = current_id],
                             front |-> st.front \cup {sele2}]
                       ELSE st
       IN CheckSurrounding(nst, EE, normals, ref_normal, current_id, sele, i + 1)

\* "Advance this front": until the front is empty
RECURSIVE AdvanceFront(_, _, _, _, _)
AdvanceFront(st, EE, normals, ref_normal, current_id) ==
  IF st.front = {} THEN st.ids
  ELSE LET sele == CHOOSE f \in st.front : \A g \in st.front : f <= g
           st1 == [st EXCEPT !.front = @ \ {sele}]
       IN AdvanceFront(CheckSurrounding(st1, EE, normals, ref_normal, current_id, sele, 1),
                       EE, normals, ref_normal, current_id)

\* "Form patches": the loop over pos with the running counter current_id
RECURSIVE FormPatches(_, _, _, _, _, _)
FormPatches(ids, NS, EE, normals, pos, current_id) ==
  LET zero == {i \in pos..(NS - 1) : ids[i] = 0}
  IN IF pos >= NS \/ zero = {} THEN ids
     ELSE LET p == CHOOSE i \in zero : \A k \in zero : i <= k
              ids1 == AdvanceFront([ids |-> [ids EXCEPT ![p] = current_id], front |-> {p}],
                                   EE, normals, normals[p], current_id)
          IN FormPatches(ids1, NS, EE, normals, p + 1, current_id + 1)

\* Surface::calculate_coplanar_ids: normals, SNEList, EEList, coplanar_ids
calculate_coplanar_ids(m, NS, SEN) ==
  LET snloc == m.ndims
      normals == [i \in 0..(NS - 1) |->
                    IF m.ndims = 2
                    THEN Normal2D(m.coords[SEN[i][1]], m.coords[SEN[i][2]])
                    ELSE Normal3D(m.coords[SEN[i][1]], m.coords[SEN[i][2]], m.coords[SEN[i][3]])]
      SNE == [v \in DOMAIN m.coords |-> {i \in 0..(NS - 1) : v \in Range(SEN[i])}]
      EE == SurfaceEEList(snloc, NS, SEN, SNE)
  IN [normals |-> normals,
      SNEList |-> SNE,
      coplanar_ids |-> FormPatches([i \in 0..(NS - 1) |-> 0], NS, EE, normals, 0, 1)]

\* Surface::find_surface (called by the constructor): the Surface state
find_surface(m) ==
  LET nloc == m.ndims + 1
      facets == FacetMap(m.ENList, nloc, m.NElements)
      order == SortKeys(DOMAIN facets)
      NS == Len(order)
      SEN == [i \in 0..(NS - 1) |-> facets[order[i + 1]]]
      cp == calculate_coplanar_ids(m, NS, SEN)
  IN [NSElements |-> NS,
      SENList |-> SEN,
      surface_nodes |-> UNION (DOMAIN facets),
      SNEList |-> cp.SNEList,
      coplanar_ids |-> cp.coplanar_ids]

(* ---------------------------------------------------------------------- *)
(* class Surface: queries and collapse.  S is the Surface state           *)
(* [NSElements, SENList, coplanar_ids, SNEList, surface_nodes].           *)
(* ---------------------------------------------------------------------- *)
\* Surface::contains_node
contains_node(S, nid) == nid \in S.surface_nodes

\* as incident_plane, leaving the loop after the first facet
incident_planeFirstFacet(S, nid) ==
  IF S.SNEList[nid] = {} THEN {}
  ELSE {S.coplanar_ids[CHOOSE f \in S.SNEList[nid] : \A g \in S.SNEList[nid] : f <= g]}

\* the set incident_plane built from SNEList[nid]
incident_plane(S, nid) == {S.coplanar_ids[f] : f \in S.SNEList[nid]}

\* Surface::is_corner_vertex
is_corner_vertex(S, nd, nid) == Cardinality(incident_plane(S, nid)) >= nd

\* as is_collapsible, asking on a geometric edge for one common patch only
is_collapsibleAnyPatch(S, nd, nid_free, nid_target) ==
  LET incident_plane_free == incident_plane(S, nid_free)
      incident_plane_target == incident_plane(S, nid_target)
  IN IF nid_free \notin S.surface_nodes THEN TRUE
     ELSE IF Cardinality(incident_plane_free) >= nd THEN FALSE
     ELSE \E p \in incident_plane_free : p \in incident_plane_target

\* as is_collapsible, with the corner test > ndims
is_collapsibleStrictCorner(S, nd, nid_free, nid_target) ==
  LET incident_plane_free == incident_plane(S, nid_free)
      incident_plane_target == incident_plane(S, nid_target)
  IN IF nid_free \notin S.surface_nodes THEN TRUE
     ELSE IF Cardinality(incident_plane_free) > nd THEN FALSE
     ELSE IF Cardinality(incident_plane_free) = 2
          THEN incident_plane_free \subseteq incident_plane_target
     ELSE \E p \in incident_plane_free : p \in incident_plane_target

\* Surface::is_collapsible.  The last case is guarded in the source by
\* assert(incident_plane_free.size()==1).
is_collapsible(S, nd, nid_free, nid_target) ==
  LET incident_plane_free == incident_plane(S, nid_free)
      incident_plane_target == incident_plane(S, nid_target)
  IN IF nid_free \notin S.surface_nodes THEN TRUE
     ELSE IF Cardinality(incident_plane_free) >= nd THEN FALSE
     ELSE IF Cardinality(incident_plane_free) = 2
          THEN incident_plane_free \subseteq incident_plane_target
     ELSE \E p \in incident_plane_free : p \in incident_plane_target

\* first entry of the tuple n equal to a replaced by b ("Renumber ... break")
Renumber(n, a, b) ==
  LET k == FindFirst(n, a)
  IN IF k = 0 THEN n ELSE [n EXCEPT ![k] = b]

\* Surface::collapse, the facets found in "Find deleted facets"
DeletedFacets(S, nid_free, nid_target) == S.SNEList[nid_free] \cap S.SNEList[nid_target]

\* as CollapseSurfaceNodes, without the erase
CollapseSurfaceNodesKeepsFree(S, nid_free) == S.surface_nodes

\* Surface::collapse, surface_nodes.erase(nid_free)
CollapseSurfaceNodes(S, nid_free) == S.surface_nodes \ {nid_free}

\* as CollapseSENList, renumbering every facet of nid_free
CollapseSENListNoDelete(S, nid_free, nid_target) ==
  [f \in DOMAIN S.SENList |->
     IF f \in S.SNEList[nid_free]
     THEN Renumber(S.SENList[f], nid_free, nid_target)
     ELSE S.SENList[f]]

\* Surface::collapse, the loop over SNEList[nid_free] on SENList: deleted
\* facets get -1 in every slot, the others are renumbered.  The source tests
\* deleted_facets.count(ee) with the iterator ee; it is read as count(*ee).
CollapseSENList(S, nid_free, nid_target) ==
  LET deleted_facets == DeletedFacets(S, nid_free, nid_target)
  IN [f \in DOMAIN S.SENList |->
        IF f \in S.SNEList[nid_free] /\ f \in deleted_facets
        THEN [i \in DOMAIN S.SENList[f] |-> -1]
        ELSE IF f \in S.SNEList[nid_free]
             THEN Renumber(S.SENList[f], nid_free, nid_target)
             ELSE S.SENList[f]]

\* as CollapseSNEList, without the facets of nid_free
CollapseSNEListNoInsert(S, nid_free, nid_target) ==
  [S.SNEList EXCEPT ![nid_target] = @ \ DeletedFacets(S, nid_free, nid_target)]

\* Surface::collapse, the updates of the node-to-facet index: the facets of
\* nid_free that are kept are added to SNEList[nid_target], the deleted ones
\* are erased from it
CollapseSNEList(S, nid_free, nid_target) ==
  LET deleted_facets == DeletedFacets(S, nid_free, nid_target)
  IN [S.SNEList EXCEPT ![nid_target] =
        (@ \cup (S.SNEList[nid_free] \ deleted_facets)) \ deleted_facets]

\* Surface::collapse.  The function has no return statement; its only
\* caller discards the result.
collapse(S, nid_free, nid_target) ==
  [S EXCEPT !.surface_nodes = CollapseSurfaceNodes(S, nid_free),
            !.SENList = CollapseSENList(S, nid_free, nid_target),
            !.SNEList = CollapseSNEList(S, nid_free, nid_target)]

(* ---------------------------------------------------------------------- *)
(* class Coarsen.  G is the geometry [ndims, NNodes, coords, metric], M   *)
(* the mutable graph [ENList, NNList, NEList, Edges], S the Surface.      *)
(* On a single rank (MPI not initialised: nprocs = 1) G has no halo; on  *)
(* a rank of a distributed mesh G also holds owner, rank and recv_halo.   *)
(* ---------------------------------------------------------------------- *)
\* Mesh::is_owned_node: every vertex is owned unless the mesh is distributed
is_owned_node(G, v) == IF "owner" \in DOMAIN G THEN G.owner[v] = G.rank ELSE TRUE

\* Mesh::recv_halo: empty unless the mesh is distributed
recv_halo(G) == IF "owner" \in DOMAIN G THEN G.recv_halo ELSE {}

\* as VolumeRatioRejected, comparing the magnitudes of the two volumes
VolumeRatioRejectedMagnitude(volume, orig_volume) ==
  1000 * Abs(volume) <= Abs(orig_volume)

\* the test volume/orig_volume <= 1.0e-3 in IEEE arithmetic: x/0 is +inf,
\* -inf or NaN, and a comparison with NaN is false
VolumeRatioRejected(volume, orig_volume) ==
  IF orig_volume > 0 THEN 1000 * volume <= orig_volume
  ELSE IF orig_volume < 0 THEN 1000 * volume >= orig_volume
  ELSE volume < 0

\* as MultimapInsert, with the longest edge first
MultimapInsertLongestFirst(seq, c) ==
  LET k == Cardinality({i \in DOMAIN seq : seq[i].len >= c.len})
  IN [i \in 1..(Len(seq) + 1) |->
        IF i <= k THEN seq[i] ELSE IF i = k + 1 THEN c ELSE seq[i - 1]]

\* stable insertion of candidate c = [len, nn] into the multimap short_edges
\* (equal keys keep insertion order)
MultimapInsert(seq, c) ==
  LET k == Cardinality({i \in DOMAIN seq : seq[i].len <= c.len})
  IN [i \in 1..(Len(seq) + 1) |->
        IF i <= k THEN seq[i] ELSE IF i = k + 1 THEN c ELSE seq[i - 1]]

\* as ShortEdges, with the comparison of the length with L_low reversed
RECURSIVE ShortEdgesReversed(_, _, _, _, _, _)
ShortEdgesReversed(G, M, S, rm_vertex, L_low, k) ==
  IF k = 0 THEN <<>>
  ELSE LET prev == ShortEdgesReversed(G, M, S, rm_vertex, L_low, k - 1)
           nn == M.NNList[rm_vertex][k]
       IN IF nn \in recv_halo(G) THEN prev
          ELSE IF ~is_collapsible(S, G.ndims, rm_vertex, nn) THEN prev
          ELSE IF M.Edges[EdgeKey(rm_vertex, nn)].length > L_low
               THEN MultimapInsert(prev, [len |-> M.Edges[EdgeKey(rm_vertex, nn)].length, nn |-> nn])
               ELSE prev

\* as ShortEdges, an edge of length exactly L_low being short too
RECURSIVE ShortEdgesAtMost(_, _, _, _, _, _)
ShortEdgesAtMost(G, M, S, rm_vertex, L_low, k) ==
  IF k = 0 THEN <<>>
  ELSE LET prev == ShortEdgesAtMost(G, M, S, rm_vertex, L_low, k - 1)
           nn == M.NNList[rm_vertex][k]
       IN IF nn \in recv_halo(G) THEN prev
          ELSE IF ~is_collapsible(S, G.ndims, rm_vertex, nn) THEN prev
          ELSE IF M.Edges[EdgeKey(rm_vertex, nn)].length <= L_low
               THEN MultimapInsert(prev, [len |-> M.Edges[EdgeKey(rm_vertex, nn)].length, nn |-> nn])
               ELSE prev

\* the multimap short_edges after the loop over the first k neighbours
RECURSIVE ShortEdges(_, _, _, _, _, _)
ShortEdges(G, M, S, rm_vertex, L_low, k) ==
  IF k = 0 THEN <<>>
  ELSE LET prev == ShortEdges(G, M, S, rm_vertex, L_low, k - 1)
           nn == M.NNList[rm_vertex][k]
       IN IF nn \in recv_halo(G) THEN prev
          ELSE IF ~is_collapsible(S, G.ndims, rm_vertex, nn) THEN prev
          ELSE IF M.Edges[EdgeKey(rm_vertex, nn)].length < L_low
               THEN MultimapInsert(prev, [len |-> M.Edges[EdgeKey(rm_vertex, nn)].length, nn |-> nn])
               ELSE prev

\* as RejectCollapse, comparing the new edges with half of L_max
RejectCollapseHalfLMax(G, M, rm_vertex, target_vertex, L_max) ==
  LET target_edge == M.Edges[EdgeKey(rm_vertex, target_vertex)]
  IN \/ \E ee \in M.NEList[rm_vertex] \ target_edge.adjacent_elements :
          LET orig_n == M.ENList[ee]
              n == [i \in DOMAIN orig_n |-> IF orig_n[i] = rm_vertex THEN target_vertex ELSE orig_n[i]]
          IN VolumeRatioRejected(RawMeasure(G.ndims, G.coords, n),
                                 RawMeasure(G.ndims, G.coords, orig_n))
     \/ \E k \in DOMAIN M.NNList[rm_vertex] :
          /\ M.NNList[rm_vertex][k] # target_vertex
          /\ calc_edge_length(G.ndims, G.coords, G.metric, target_vertex, M.NNList[rm_vertex][k]) > L_max \div 2

\* the checks on one candidate target: volumes of the elements that would
\* be rewritten, then the lengths of the edges that would be created
RejectCollapse(G, M, rm_vertex, target_vertex, L_max) ==
  LET target_edge == M.Edges[EdgeKey(rm_vertex, target_vertex)]
  IN \/ \E ee \in M.NEList[rm_vertex] \ target_edge.adjacent_elements :
          LET orig_n == M.ENList[ee]
              n == [i \in DOMAIN orig_n |-> IF orig_n[i] = rm_vertex THEN target_vertex ELSE orig_n[i]]
          IN VolumeRatioRejected(RawMeasure(G.ndims, G.coords, n),
                                 RawMeasure(G.ndims, G.coords, orig_n))
     \/ \E k \in DOMAIN M.NNList[rm_vertex] :
          /\ M.NNList[rm_vertex][k] # target_vertex
          /\ calc_edge_length(G.ndims, G.coords, G.metric, target_vertex, M.NNList[rm_vertex][k]) > L_max

\* Coarsen::coarsen_identify_kernel
coarsen_identify_kernel(G, M, S, rm_vertex, L_low, L_max) ==
  IF is_corner_vertex(S, G.ndims, rm_vertex) THEN -2
  ELSE IF ~is_owned_node(G, rm_vertex) THEN -3
  ELSE LET short_edges == ShortEdges(G, M, S, rm_vertex, L_low, Len(M.NNList[rm_vertex]))
           ok == {i \in DOMAIN short_edges : ~RejectCollapse(G, M, rm_vertex, short_edges[i].nn, L_max)}
       IN IF short_edges = <<>> THEN -1
          ELSE IF ok = {} THEN -4
          ELSE short_edges[CHOOSE i \in ok : \A j \in ok : i <= j].nn

\* pairs of local vertices (i < j) of an element
LocalPairs(nloc) == {p \in (1..nloc) \X (1..nloc) : p[1] < p[2]}

\* first loop of coarsen_kernel: every deleted element is taken out of the
\* adjacent_elements of each of its edges except the target edge
RemoveDeletedFromEdges(E, EN, deleted_elements, target_key) ==
  [k \in DOMAIN E |->
     IF k = target_key THEN E[k]
     ELSE [E[k] EXCEPT !.adjacent_elements =
             @ \ {de \in deleted_elements :
                    \E p \in LocalPairs(Len(EN[de])) : EdgeKey(EN[de][p[1]], EN[de][p[2]]) = k}]]

\* as UpdateEdges, a rekeyed edge keeping the length it had as (rm_vertex, nn)
RECURSIVE UpdateEdgesKeepsLength(_, _, _, _, _, _, _)
UpdateEdgesKeepsLength(E, G, NNrm, adj_nodes_target, rm_vertex, target_vertex, k) ==
  IF k > Len(NNrm) THEN E
  ELSE LET nn == NNrm[k]
           edge_modify == E[EdgeKey(rm_vertex, nn)]
           E1 == EdgesErase(E, EdgeKey(rm_vertex, nn))
           E2 == IF target_vertex = nn THEN E1
                 ELSE IF nn \in adj_nodes_target
                      THEN LET edge_duplicate == E1[EdgeKey(target_vertex, nn)]
                           IN EdgesInsert(EdgesErase(E1, EdgeKey(target_vertex, nn)),
                                          EdgeKey(target_vertex, nn),
                                          [adjacent_elements |-> edge_modify.adjacent_elements
                                                                   \cup edge_duplicate.adjacent_elements,
                                           length |-> edge_duplicate.length])
                      ELSE EdgesInsert(E1, EdgeKey(target_vertex, nn),
                                       [adjacent_elements |-> edge_modify.adjacent_elements,
                                        length |-> edge_modify.length])
       IN UpdateEdgesKeepsLength(E2, G, NNrm, adj_nodes_target, rm_vertex, target_vertex, k + 1)

\* "Update Edges": the loop over NNList[rm_vertex], from neighbour k on
RECURSIVE UpdateEdges(_, _, _, _, _, _, _)
UpdateEdges(E, G, NNrm, adj_nodes_target, rm_vertex, target_vertex, k) ==
  IF k > Len(NNrm) THEN E
  ELSE LET nn == NNrm[k]
           edge_modify == E[EdgeKey(rm_vertex, nn)]
           E1 == EdgesErase(E, EdgeKey(rm_vertex, nn))
           E2 == IF target_vertex = nn THEN E1
                 ELSE IF nn \in adj_nodes_target
                      THEN LET edge_duplicate == E1[EdgeKey(target_vertex, nn)]
                           IN EdgesInsert(EdgesErase(E1, EdgeKey(target_vertex, nn)),
                                          EdgeKey(target_vertex, nn),
                                          [adjacent_elements |-> edge_modify.adjacent_elements
                                                                   \cup edge_duplicate.adjacent_elements,
                                           length |-> edge_duplicate.length])
                      ELSE EdgesInsert(E1, EdgeKey(target_vertex, nn),
                                       [adjacent_elements |-> edge_modify.adjacent_elements,
                                        length |-> calc_edge_length(G.ndims, G.coords, G.metric,
                                                                    target_vertex, nn)])
       IN UpdateEdges(E2, G, NNrm, adj_nodes_target, rm_vertex, target_vertex, k + 1)

\* "Update surrounding NNList": the loop over NNList[rm_vertex], from
\* neighbour k on; st = [NNList, NEList]
RECURSIVE UpdateNNList(_, _, _, _, _, _, _)
UpdateNNList(st, NNrm, adj_nodes_target, deleted_elements, rm_vertex, target_vertex, k) ==
  IF k > Len(NNrm) THEN st
  ELSE LET nn == NNrm[k]
           back_reference == FindFirst(st.NNList[nn], rm_vertex)
           st1 == IF nn = target_vertex
                  THEN LET new_patch == ((adj_nodes_target \cup Range(NNrm)) \ {target_vertex})
                                          \ {rm_vertex}
                       IN [st EXCEPT !.NNList[nn] = SetToSeq(new_patch)]
                  ELSE IF nn \in adj_nodes_target
                       THEN [st EXCEPT !.NEList[nn] = @ \ deleted_elements,
                                       !.NNList[nn] = RemoveAt(@, back_reference)]
                       ELSE [st EXCEPT !.NNList[nn] = [@ EXCEPT ![back_reference] = target_vertex]]
       IN UpdateNNList(st1, NNrm, adj_nodes_target, deleted_elements, rm_vertex, target_vertex, k + 1)

\* Mesh::erase_vertex: the vertex keeps no adjacency
erase_vertex(st, v) == [st EXCEPT !.NNList[v] = <<>>, !.NEList[v] = {}]

\* what the asserts of coarsen_kernel and of Surface::collapse require, and
\* what the unchecked dereferences of Edges.find need
KernelPrecondition(G, M, S, rm_vertex, target_vertex) ==
  /\ EdgeKey(rm_vertex, target_vertex) \in DOMAIN M.Edges
  /\ \A de \in M.Edges[EdgeKey(rm_vertex, target_vertex)].adjacent_elements :
       /\ M.ENList[de][1] >= 0
       /\ \A p \in LocalPairs(G.ndims + 1) :
            EdgeKey(M.ENList[de][p[1]], M.ENList[de][p[2]]) \in DOMAIN M.Edges
  /\ (contains_node(S, rm_vertex) /\ contains_node(S, target_vertex))
       => is_collapsible(S, G.ndims, rm_vertex, target_vertex)
  /\ \A k \in DOMAIN M.NNList[rm_vertex] :
       LET nn == M.NNList[rm_vertex][k]
       IN /\ EdgeKey(rm_vertex, nn) \in DOMAIN M.Edges
          /\ nn # target_vertex => FindFirst(M.NNList[nn], rm_vertex) # 0
          /\ (nn # target_vertex /\ nn \in Range(M.NNList[target_vertex]))
               => EdgeKey(target_vertex, nn) \in DOMAIN M.Edges
          /\ \A j \in DOMAIN M.NNList[rm_vertex] : j # k => M.NNList[rm_vertex][j] # nn

\* coarsen_kernel, "Renumber nodes in elements adjacent to rm_vertex": the
\* new element list
KernelENList(M, deleted_elements, rm_vertex, target_vertex) ==
  [e \in DOMAIN M.ENList |->
     IF e \in M.NEList[rm_vertex] /\ e \in deleted_elements
     THEN erase_element(M.ENList, e)[e]
     ELSE IF e \in M.NEList[rm_vertex]
          THEN Renumber(M.ENList[e], rm_vertex, target_vertex)
          ELSE M.ENList[e]]

\* as KernelNEListTarget, without the removal of the deleted elements
KernelNEListTargetKeepsDeleted(M, deleted_elements, rm_vertex, target_vertex) ==
  M.NEList[target_vertex] \cup (M.NEList[rm_vertex] \ deleted_elements)

\* coarsen_kernel, NEList[target_vertex] after the renumbering loop and after
\* "Remove deleted elements from node-elemement adjancy list"
KernelNEListTarget(M, deleted_elements, rm_vertex, target_vertex) ==
  (M.NEList[target_vertex] \cup (M.NEList[rm_vertex] \ deleted_elements)) \ deleted_elements

\* as coarsen_kernel, without the call of erase_vertex
coarsen_kernelNoErase(G, M, S, rm_vertex, target_vertex) ==
  LET target_key == EdgeKey(rm_vertex, target_vertex)
      deleted_elements == M.Edges[target_key].adjacent_elements
      S1 == IF contains_node(S, rm_vertex) /\ contains_node(S, target_vertex)
            THEN collapse(S, rm_vertex, target_vertex)
            ELSE S
      E1 == RemoveDeletedFromEdges(M.Edges, M.ENList, deleted_elements, target_key)
      EN1 == KernelENList(M, deleted_elements, rm_vertex, target_vertex)
      NE1 == [M.NEList EXCEPT ![target_vertex] =
                KernelNEListTarget(M, deleted_elements, rm_vertex, target_vertex)]
      adj_nodes_target == get_node_patch(M.NNList, target_vertex)
      E2 == UpdateEdges(E1, G, M.NNList[rm_vertex], adj_nodes_target, rm_vertex, target_vertex, 1)
      st == UpdateNNList([NNList |-> M.NNList, NEList |-> NE1], M.NNList[rm_vertex],
                         adj_nodes_target, deleted_elements, rm_vertex, target_vertex, 1)
  IN [M |-> [ENList |-> EN1, NNList |-> st.NNList, NEList |-> st.NEList, Edges |-> E2],
      S |-> S1]

\* Coarsen::coarsen_kernel: the new [M, S]
coarsen_kernel(G, M, S, rm_vertex, target_vertex) ==
  LET target_key == EdgeKey(rm_vertex, target_vertex)
      deleted_elements == M.Edges[target_key].adjacent_elements
      S1 == IF contains_node(S, rm_vertex) /\ contains_node(S, target_vertex)
            THEN collapse(S, rm_vertex, target_vertex)
            ELSE S
      E1 == RemoveDeletedFromEdges(M.Edges, M.ENList, deleted_elements, target_key)
      EN1 == KernelENList(M, deleted_elements, rm_vertex, target_vertex)
      NE1 == [M.NEList EXCEPT ![target_vertex] =
                KernelNEListTarget(M, deleted_elements, rm_vertex, target_vertex)]
      adj_nodes_target == get_node_patch(M.NNList, target_vertex)
      E2 == UpdateEdges(E1, G, M.NNList[rm_vertex], adj_nodes_target, rm_vertex, target_vertex, 1)
      st == UpdateNNList([NNList |-> M.NNList, NEList |-> NE1], M.NNList[rm_vertex],
                         adj_nodes_target, deleted_elements, rm_vertex, target_vertex, 1)
      st1 == erase_vertex(st, rm_vertex)
  IN [M |-> [ENList |-> EN1, NNList |-> st1.NNList, NEList |-> st1.NEList, Edges |-> E2],
      S |-> S1]

(* ---------------------------------------------------------------------- *)
(* The colouring oracle (zoltan_colour, called with distance 2).          *)
(* ---------------------------------------------------------------------- *)
\* v and w are at most two edges apart in NNList
Within2(NN, v, w) ==
  \/ w \in Range(NN[v])
  \/ v \in Range(NN[w])
  \/ \E u \in DOMAIN NN : (u \in Range(NN[v]) \/ v \in Range(NN[u]))
                          /\ (w \in Range(NN[u]) \/ u \in Range(NN[w]))

\* a distance-2 colouring: vertices at most two edges apart differ in colour
ValidColouring(NN, c) ==
  \A v, w \in DOMAIN NN : (v # w /\ c[v] = c[w]) => ~Within2(NN, v, w)

\* the subsets of C whose vertices are pairwise more than two edges apart
RECURSIVE IndependentSets(_, _)
IndependentSets(NN, C) ==
  IF C = {} THEN {{}}
  ELSE LET v == CHOOSE x \in C : \A y \in C : y <= x
           prev == IndependentSets(NN, C \ {v})
       IN prev \cup {T \cup {v} : T \in {U \in prev : \A w \in U : ~Within2(NN, v, w)}}

\* the colouring with colour 1 on the class T and one colour per other vertex
ColouringOf(NN, T) ==
  [v \in DOMAIN NN |->
     IF v \in T THEN 1 ELSE 2 + Cardinality({w \in DOMAIN NN : w < v /\ w \notin T})]

\* the colourings the oracle returns in the model.  C is the set of vertices
\* that have a target: for each non-empty set T of such vertices, pairwise
\* more than two edges apart, there is one colouring with T as colour class 1.
\* A set is selected by coarsen under some distance-2 colouring exactly if it
\* is selected under one of these; colour classes of vertices without a
\* target play no part in the selection.
OracleColourings(NN, C) ==
  IF C = {} THEN {ColouringOf(NN, {})}
  ELSE {ColouringOf(NN, T) : T \in IndependentSets(NN, C) \ {{}}}

\* v and w are joined by an edge of NNList
Adjacent(NN, v, w) == w \in Range(NN[v]) \/ v \in Range(NN[w])

\* the subsets of C whose vertices are pairwise non-adjacent
RECURSIVE IndependentSets1(_, _)
IndependentSets1(NN, C) ==
  IF C = {} THEN {{}}
  ELSE LET v == CHOOSE x \in C : \A y \in C : y <= x
           prev == IndependentSets1(NN, C \ {v})
       IN prev \cup {T \cup {v} : T \in {U \in prev : \A w \in U : ~Adjacent(NN, v, w)}}

\* as OracleColourings, for the distance-1 colourings
OracleColourings1(NN, C) ==
  IF C = {} THEN {ColouringOf(NN, {})}
  ELSE {ColouringOf(NN, T) : T \in IndependentSets1(NN, C) \ {{}}}

\* the colouring with the classes T1 and T2 (T2 may be empty) and one class
\* for every other vertex; the two classes are numbered first, or last
ColouringOf2(NN, T1, T2, atEnd) ==
  LET rest == DOMAIN NN \ (T1 \cup T2)
      nT == IF T2 = {} THEN 1 ELSE 2
  IN [v \in DOMAIN NN |->
        IF v \in T1 THEN (IF atEnd THEN Cardinality(rest) + 1 ELSE 1)
        ELSE IF v \in T2 THEN (IF atEnd THEN Cardinality(rest) + 2 ELSE 2)
        ELSE (IF atEnd THEN 0 ELSE nT) + 1 + Cardinality({w \in rest : w < v})]

\* distance-2 colourings of every shape that matters to the selection: two
\* classes of candidates of any sizes, numbered before or after the others
OracleColouringsAll(NN, C) ==
  IF C = {} THEN {ColouringOf(NN, {})}
  ELSE LET ind == IndependentSets(NN, C)
       IN UNION {{ColouringOf2(NN, T1, T2, atEnd) :
                    T2 \in {U \in ind : U \cap T1 = {}}, atEnd \in BOOLEAN} :
                 T1 \in ind \ {{}}}

(* ---------------------------------------------------------------------- *)
(* Smooth3D (src/include/Smooth3D.h, spec section 4.E): vertex smoothing  *)
(* of a tetrahedral mesh.                                                 *)
(*                                                                        *)
(* Coordinates are points of an integer lattice; a position computed by   *)
(* a kernel is rounded to the lattice.  A quality is an integer number of *)
(* units of 10^-6, so that epsilon_q is one unit; NaN and DBL_MAX are two *)
(* values outside the range of the qualities, compared as IEEE compares.  *)
(* ---------------------------------------------------------------------- *)
\* a 3D mesh from the tuple of its points and the tuple of its elements,
\* with the identity metric everywhere
TetMesh(points, elements) ==
  [ndims |-> 3,
   NNodes |-> Len(points),
   NElements |-> Len(elements),
   coords |-> [v \in 0..(Len(points) - 1) |-> points[v + 1]],
   metric |-> [v \in 0..(Len(points) - 1) |-> IdentityMetric(3)],
   ENList |-> [e \in 0..(Len(elements) - 1) |-> elements[e + 1]]]

\* eight tetrahedra around vertex 0: the ring 1, 2, 3, 4 with vertex 5 on
\* one side and vertex 6 on the other
OctaElements ==
  <<<<0, 1, 2, 5>>,
    <<0, 2, 1, 6>>,
    <<0, 2, 3, 5>>,
    <<0, 3, 2, 6>>,
    <<0, 3, 4, 5>>,
    <<0, 4, 3, 6>>,
    <<0, 4, 1, 5>>,
    <<0, 1, 4, 6>>>>

\* the octahedron of radius 6 with the inner vertex off the centre, and a
\* vertex 7 that no element uses
OctaMesh ==
  TetMesh(<< <<2, 2, 0>>, <<6, 0, 0>>, <<0, 6, 0>>, <<-6, 0, 0>>, <<0, -6, 0>>,
             <<0, 0, 6>>, <<0, 0, -6>>, <<7, 7, 7>> >>, OctaElements)

\* vertex 5 below the ring: the star of vertex 0 is not convex and the mean
\* of its neighbours, (0, 0, -2), is outside of four of its elements
DentMesh ==
  TetMesh(<< <<0, 0, -6>>, <<4, 0, 0>>, <<0, 4, 0>>, <<-4, 0, 0>>, <<0, -4, 0>>,
             <<0, 0, -4>>, <<0, 0, -8>> >>, OctaElements)

\* as DentMesh, with the mean of the neighbours of vertex 0 at vertex 5
FlatMesh ==
  TetMesh(<< <<0, 0, -5>>, <<4, 0, 0>>, <<0, 4, 0>>, <<-4, 0, 0>>, <<0, -4, 0>>,
             <<0, 0, -2>>, <<0, 0, -10>> >>, OctaElements)

\* two inner vertices, 0 and 6, joined by an edge: three elements around the
\* edge with the ring 1, 2, 3, three more at vertex 0 with vertex 4 and
\* three more at vertex 6 with vertex 5
BipyramidMesh ==
  TetMesh(<< <<0, 1, 1>>, <<2, 1, 0>>, <<-2, 3, -1>>, <<-1, -3, -1>>, <<1, 0, 3>>, <<1, -1, -3>>, <<0, -1, -1>> >>,
          <<<<0, 6, 2, 1>>,
            <<0, 1, 2, 4>>,
            <<6, 1, 5, 2>>,
            <<0, 6, 3, 2>>,
            <<0, 2, 3, 4>>,
            <<6, 2, 5, 3>>,
            <<0, 6, 1, 3>>,
            <<0, 3, 1, 4>>,
            <<6, 3, 5, 1>>>>)

\* two octahedra that share no vertex, their inner vertices 0 and 1 next to
\* each other in the arrays: around vertex 1 every element is better than
\* the mean of the mesh, around vertex 0 the elements are those of DentMesh
TwinMesh ==
  TetMesh(<< <<20, 0, -6>>, <<1, 0, 0>>,
             <<6, 0, 0>>, <<0, 6, 0>>, <<-6, 0, 0>>, <<0, -6, 0>>,
             <<0, 0, 6>>, <<0, 0, -6>>,
             <<24, 0, 0>>, <<20, 4, 0>>, <<16, 0, 0>>, <<20, -4, 0>>,
             <<20, 0, -4>>, <<20, 0, -8>> >>,
          [e \in 1..Len(OctaElements) |->
             [k \in 1..4 |-> IF OctaElements[e][k] = 0 THEN 0 ELSE OctaElements[e][k] + 7]] \o
          [e \in 1..Len(OctaElements) |->
             [k \in 1..4 |-> IF OctaElements[e][k] = 0 THEN 1 ELSE OctaElements[e][k] + 1]])

\* two inner vertices, 0 and 1, joined by an edge, with the ring 2, 3, 4 and
\* the vertices 5 and 6 as in BipyramidMesh: the mean of the neighbours of
\* vertex 0 inverts an element until vertex 1 has moved to the mean of its
\* own neighbours
RelayMesh ==
  TetMesh(<< <<0, -1, 2>>, <<2, 0, 1>>, <<5, 1, 0>>, <<-2, 3, 1>>, <<-1, -6, 0>>,
             <<1, -2, 4>>, <<-2, -1, -5>> >>,
          <<<<0, 1, 3, 2>>,
            <<0, 2, 3, 5>>,
            <<1, 2, 6, 3>>,
            <<0, 1, 4, 3>>,
            <<0, 3, 4, 5>>,
            <<1, 3, 6, 4>>,
            <<0, 1, 2, 4>>,
            <<0, 4, 2, 5>>,
            <<1, 4, 6, 2>>>>)

\* two elements that share the face 1, 2, 3: every vertex is on the boundary
FacePairMesh ==
  TetMesh(<< <<0, 0, 0>>, <<6, 0, 0>>, <<0, 6, 0>>, <<0, 0, 6>>, <<6, 6, 6>> >>,
          <<<<0, 1, 2, 3>>, <<4, 1, 3, 2>>>>)

\* the meshes smooth is run on
SmoothMeshes ==
  {OctaMesh, DentMesh, FlatMesh, BipyramidMesh, TwinMesh, RelayMesh, FacePairMesh}


\* the quality 1.0
QOne == 1000000

\* Smooth3D::epsilon_q = 1.0e-6
epsilon_q == 1

\* number of step lengths the line search of the Linf kernel tries
SearchCap == 10

NaN == 0 - 2^30

DBL_MAX == 2^30

\* a < b of two doubles: false when either is NaN
FLess(a, b) == a # NaN /\ b # NaN /\ a < b

\* std::min(a, b): b if b < a, else a
FMin(a, b) == IF FLess(b, a) THEN b ELSE a

\* a - b of two doubles
FMinus(a, b) == IF a = NaN \/ b = NaN THEN NaN ELSE a - b

\* the next decimal digit of r / den for 0 <= r < den: the largest d with
\* d * den <= 10 * r, compared without forming 10 * r
Digit(r, den) ==
  LET h == den \div 10
      l == den % 10
  IN CHOOSE d \in 0..9 :
       /\ d * h + ((d * l + 9) \div 10) <= r
       /\ d = 9 \/ (d + 1) * h + (((d + 1) * l + 9) \div 10) > r

\* the first k decimal digits of r / den, as an integer
RECURSIVE Frac(_, _, _)
Frac(r, den, k) ==
  IF k = 0 THEN 0
  ELSE LET d == Digit(r, den)
       IN d * 10^(k - 1) + Frac(10 * (r - d * (den \div 10)) - d * (den % 10), den, k - 1)

\* d^T A d for the packed symmetric 3x3 matrix A
Quad3(A, d) ==
    A[1]*d[1]*d[1] + A[4]*d[2]*d[2] + A[6]*d[3]*d[3]
  + 2*A[2]*d[1]*d[2] + 2*A[3]*d[1]*d[3] + 2*A[5]*d[2]*d[3]

\* determinant of the packed symmetric 3x3 matrix A
DetSym3(A) == Det3(<<A[1], A[2], A[3]>>, <<A[2], A[4], A[5]>>, <<A[3], A[5], A[6]>>)

\* ElementProperty::lipnikov(x0..x3, m0..m3) for the four points x and the
\* four metrics m: 432 D^2 det(Mbar) / S^3 with D six times the signed
\* volume, Mbar the mean metric and S the sum of the squared lengths of the
\* six edges in Mbar; 1 for the regular tetrahedron, the sign of the volume,
\* NaN for a flat element
lipnikov(orientation, x, m) ==
  LET D == orientation * RawVolume(x[1], x[2], x[3], x[4])
      Msum == [k \in 1..6 |-> m[1][k] + m[2][k] + m[3][k] + m[4][k]]
      len(i, j) == Quad3(Msum, [k \in 1..3 |-> x[j][k] - x[i][k]]) \div 4
      S == len(1, 2) + len(1, 3) + len(1, 4) + len(2, 3) + len(2, 4) + len(3, 4)
      num == 432 * D * D * (DetSym3(Msum) \div 64)
      den == S * S * S
      q == IF num >= den THEN QOne ELSE Frac(num, den, 6)
  IN IF D = 0 \/ (\E j \in 1..4 : \E k \in 1..6 : m[j][k] = NaN) THEN NaN
     ELSE IF D > 0 THEN q ELSE 0 - q

\* Mesh::boundary[e*4+j] > 0: the face of element e opposite to its j-th
\* vertex (j = 1..4 here) belongs to no other live element
MeshBoundary(EN, e, j) ==
  LET F == Range(EN[e]) \ {EN[e][j]}
  IN \A f \in LiveElements(EN) : f # e => ~(F \subseteq Range(EN[f]))

\* is_boundary of init_cache: v is one of the three vertices of a boundary
\* face, n[(j+1)%4], n[(j+2)%4], n[(j+3)%4]
is_boundary(EN, v) ==
  \E e \in LiveElements(EN) : \E j \in 1..4 :
     /\ MeshBoundary(EN, e, j)
     /\ v \in {EN[e][((j - 1 + k) % 4) + 1] : k \in 1..3}

\* as Skipped, without the boundary test
SkippedNotBoundary(G, EN, NN, col, v) ==
  (col[v] < 0) \/ (~is_owned_node(G, v)) \/ (NN[v] = <<>>)

\* init_cache skips the vertex: uncoloured, not owned, no neighbour, boundary
Skipped(G, EN, NN, col, v) ==
  (col[v] < 0) \/ (~is_owned_node(G, v)) \/ (NN[v] = <<>>) \/ is_boundary(EN, v)

\* colour_sets of init_cache: colour |-> the vertices of that colour that are
\* not skipped, in ascending order
ColourSets(G, EN, NN, col) ==
  LET kept == {v \in DOMAIN col : ~Skipped(G, EN, NN, col, v)}
  IN [c \in {col[v] : v \in kept} |-> SetToSeq({v \in kept : col[v] = c})]

\* update_quality(e): the quality of e at the present coordinates and metrics
ElementQuality(o, X, M, EN, e) ==
  lipnikov(o, [k \in 1..4 |-> X[EN[e][k]]], [k \in 1..4 |-> M[EN[e][k]]])

\* the cache filled by init_cache: 1.0 for an erased element
InitQuality(o, X, M, EN) ==
  [e \in DOMAIN EN |-> IF EN[e][1] < 0 THEN QOne ELSE ElementQuality(o, X, M, EN, e)]

\* sum of the doubles q[e], e in E
RECURSIVE FSum(_, _)
FSum(q, E) ==
  IF E = {} THEN 0
  ELSE LET e == CHOOSE f \in E : TRUE
           rest == FSum(q, E \ {e})
       IN IF q[e] = NaN \/ rest = NaN THEN NaN ELSE q[e] + rest

\* good_q of init_cache: the sum over the live elements by NElements
InitGoodQ(q, EN) ==
  LET qsum == FSum(q, LiveElements(EN))
  IN IF qsum = NaN THEN NaN ELSE qsum \div Cardinality(DOMAIN EN)

\* the place of m[6] in the array Mesh::metric for m = get_metric(node),
\* six entries a vertex
M6Index(node) == node * 6 + 6

\* the values m[6] can have for vertex node: entry 0 of the metric of the
\* next vertex, or, past the end of the array, any word (a zero and a
\* non-zero one stand for them)
M6Values(M, node) ==
  LET i == M6Index(node)
  IN IF (i \div 6) \in DOMAIN M THEN {M[i \div 6][(i % 6) + 1]} ELSE {0, 1}

\* sum over the vertices u of Q of the k-th coordinate of X[u] - X[node]
RECURSIVE OffsetSum(_, _, _, _)
OffsetSum(X, node, Q, k) ==
  IF Q = {} THEN 0
  ELSE LET u == CHOOSE w \in Q : TRUE
       IN (X[u][k] - X[node][k]) + OffsetSum(X, node, Q \ {u}, k)

\* laplacian_3d_kernel(node, p): the solution of A p = q plus the position
\* of node.  A is N times the metric m of node with m[6] in the place of
\* m[5] and q is that matrix applied to the sum of the offsets of the N
\* patch vertices, so p is the mean offset when the matrix is regular; for
\* m6 = 0 and a diagonal matrix the solution of least norm has no z part
laplacian_p(X, M, NN, node, m6) ==
  LET patch == get_node_patch(NN, node)
      N == Cardinality(patch)
      m == M[node]
      regular == DetSym3(<<m[1], m[2], m[3], m[4], m[5], m6>>) # 0
  IN [k \in 1..3 |->
        IF k = 3 /\ ~regular THEN X[node][k]
        ELSE X[node][k] + (OffsetSum(X, node, patch, k) \div N)]

\* the element e with the point p in the place of vertex node
Moved(X, EN, e, node, p) == [k \in 1..4 |-> IF EN[e][k] = node THEN p ELSE X[EN[e][k]]]

\* the four volumes of generate_location_3d for element e: p in the place
\* of each vertex in turn
SubVolumes(o, X, EN, e, p) ==
  [k \in 1..4 |->
     LET x == [l \in 1..4 |-> IF l = k THEN p ELSE X[EN[e][l]]]
     IN o * RawVolume(x[1], x[2], x[3], x[4])]

\* the volume of e with p in the place of node (the inversion test)
MovedVolume(o, X, EN, e, node, p) ==
  LET x == Moved(X, EN, e, node, p)
  IN o * RawVolume(x[1], x[2], x[3], x[4])

Min4(l) == Min2(Min2(l[1], l[2]), Min2(l[3], l[4]))

\* best_e: the first element, in ascending order, of the greatest min_l;
\* min_l is Min4 of the sub-volumes by the volume of the element
RECURSIVE BestElement(_, _, _, _, _, _)
BestElement(o, X, EN, es, p, best) ==
  IF es = <<>> THEN best
  ELSE LET e == Head(es)
           Le == o * RawVolume(X[EN[e][1]], X[EN[e][2]], X[EN[e][3]], X[EN[e][4]])
           Lb == o * RawVolume(X[EN[best][1]], X[EN[best][2]], X[EN[best][3]], X[EN[best][4]])
       IN BestElement(o, X, EN, Tail(es), p,
                      IF best = -1 \/ Min4(SubVolumes(o, X, EN, e, p)) * Lb
                                       > Min4(SubVolumes(o, X, EN, best, p)) * Le
                      THEN e ELSE best)

\* mp of generate_location_3d: the metrics of the vertices of the best
\* element weighted by l = sub-volume / volume; NaN when that volume is 0
InterpolatedMetric(o, X, M, EN, NE, node, p) ==
  LET best == BestElement(o, X, EN, SetToSeq(NE[node]), p, -1)
      L == o * RawVolume(X[EN[best][1]], X[EN[best][2]], X[EN[best][3]], X[EN[best][4]])
      l == SubVolumes(o, X, EN, best, p)
  IN [i \in 1..6 |->
        IF L = 0 THEN NaN
        ELSE (l[1] * M[EN[best][1]][i] + l[2] * M[EN[best][2]][i]
              + l[3] * M[EN[best][3]][i] + l[4] * M[EN[best][4]][i]) \div L]

\* generate_location_3d(node, p, mp): not valid as soon as one incident
\* element has a negative volume with p in the place of node; else mp is the
\* metric interpolated in the best element
generate_location_3d(o, X, M, EN, NE, node, p) ==
  [valid |-> \A e \in NE[node] : ~(MovedVolume(o, X, EN, e, node, p) < 0),
   mp |-> InterpolatedMetric(o, X, M, EN, NE, node, p)]

\* the quality of e with node at p with the metric mp
MovedQuality(o, X, M, EN, e, node, p, mp) ==
  lipnikov(o, Moved(X, EN, e, node, p),
           [k \in 1..4 |-> IF EN[e][k] = node THEN mp ELSE M[EN[e][k]]])

\* functional_Linf(n0, p, mp): the least quality of the elements of n0 with
\* n0 at p, from DBL_MAX by std::min
RECURSIVE FunctionalAt(_, _, _, _, _, _, _, _)
FunctionalAt(o, X, M, EN, es, node, p, mp) ==
  IF es = <<>> THEN DBL_MAX
  ELSE LET k == Len(es)
       IN FMin(FunctionalAt(o, X, M, EN, SubSeq(es, 1, k - 1), node, p, mp),
               MovedQuality(o, X, M, EN, es[k], node, p, mp))

\* the cache after functional_Linf(node): a negative entry of an element of
\* node is computed again
Refreshed(o, X, M, EN, NE, q, node) ==
  [e \in DOMAIN q |->
     IF e \in NE[node] /\ FLess(q[e], 0) THEN ElementQuality(o, X, M, EN, e) ELSE q[e]]

\* the least entry q[e] of the elements es, from DBL_MAX by std::min
RECURSIVE CachedMin(_, _)
CachedMin(q, es) ==
  IF es = <<>> THEN DBL_MAX
  ELSE LET k == Len(es)
       IN FMin(CachedMin(q, SubSeq(es, 1, k - 1)), q[es[k]])

\* the outcome of a kernel that does not move the vertex
Kept(X, M, q, p) == [moved |-> FALSE, X |-> X, M |-> M, quality |-> q, p |-> p, trials |-> 0]

\* as laplacian_3d_kernel, rejecting the position only when every incident
\* element would have a negative volume
laplacian_3d_kernelAllNegative(o, X, M, EN, NN, NE, q, node, m6) ==
  LET p == laplacian_p(X, M, NN, node, m6)
      g == generate_location_3d(o, X, M, EN, NE, node, p)
  IN IF \A e \in NE[node] : MovedVolume(o, X, EN, e, node, p) < 0 THEN Kept(X, M, q, p)
     ELSE [moved |-> TRUE, X |-> [X EXCEPT ![node] = p], M |-> [M EXCEPT ![node] = g.mp],
           quality |-> q, p |-> p, trials |-> 0]

\* laplacian_3d_kernel(node): the position of laplacian_3d_kernel(node, p) is
\* written, with its metric, when generate_location_3d accepts it
laplacian_3d_kernel(o, X, M, EN, NN, NE, q, node, m6) ==
  LET p == laplacian_p(X, M, NN, node, m6)
      g == generate_location_3d(o, X, M, EN, NE, node, p)
  IN IF ~g.valid THEN Kept(X, M, q, p)
     ELSE [moved |-> TRUE, X |-> [X EXCEPT ![node] = p], M |-> [M EXCEPT ![node] = g.mp],
           quality |-> q, p |-> p, trials |-> 0]

\* as smart_laplacian_3d_kernel, without the test of the gain
smart_laplacian_3d_kernelNoTest(o, X, M, EN, NN, NE, q, node, m6) ==
  LET p == laplacian_p(X, M, NN, node, m6)
      g == generate_location_3d(o, X, M, EN, NE, node, p)
      X2 == [X EXCEPT ![node] = p]
      M2 == [M EXCEPT ![node] = g.mp]
  IN IF ~g.valid THEN Kept(X, M, q, p)
     ELSE [moved |-> TRUE, X |-> X2, M |-> M2,
           quality |-> [e \in DOMAIN q |->
                          IF e \in NE[node] THEN ElementQuality(o, X2, M2, EN, e) ELSE q[e]],
           p |-> p, trials |-> 0]

\* smart_laplacian_3d_kernel(node)
smart_laplacian_3d_kernel(o, X, M, EN, NN, NE, q, node, m6) ==
  LET p == laplacian_p(X, M, NN, node, m6)
      g == generate_location_3d(o, X, M, EN, NE, node, p)
      es == SetToSeq(NE[node])
      functional == FunctionalAt(o, X, M, EN, es, node, p, g.mp)
      q1 == Refreshed(o, X, M, EN, NE, q, node)
      functional_orig == CachedMin(q1, es)
      X2 == [X EXCEPT ![node] = p]
      M2 == [M EXCEPT ![node] = g.mp]
  IN IF ~g.valid THEN Kept(X, M, q, p)
     ELSE IF FLess(FMinus(functional, functional_orig), epsilon_q) THEN Kept(X, M, q1, p)
     ELSE [moved |-> TRUE, X |-> X2, M |-> M2,
           quality |-> [e \in DOMAIN q |->
                          IF e \in NE[node] THEN ElementQuality(o, X2, M2, EN, e) ELSE q1[e]],
           p |-> p, trials |-> 0]

\* the bounding box the Linf kernel computes from NNList[n0], entry by entry
\* as written in the source
RECURSIVE BBox(_, _, _)
BBox(X, ns, bbox) ==
  IF ns = <<>> THEN bbox
  ELSE LET x1 == X[Head(ns)]
           b0 == Min2(bbox[1], x1[1])
           b1 == Max2(b0, x1[1])
           b2 == Min2(b1, x1[2])
           b3 == Max2(b1, x1[2])
           b4 == Min2(b2, x1[3])
           b5 == Max2(b2, x1[3])
       IN BBox(X, Tail(ns), <<b0, b1, b2, b3, b4, b5>>)

\* the values of six times alpha: first the sum of the extents of the
\* bounding box, then, in the loop over the other elements, lowered to
\* every positive new_alpha, which lipnikov_grad decides
SixAlphaValues(X, NN, n0) ==
  LET bbox == BBox(X, NN[n0], <<DBL_MAX, 0 - DBL_MAX, DBL_MAX, 0 - DBL_MAX, DBL_MAX, 0 - DBL_MAX>>)
      a == (bbox[2] - bbox[1]) + (bbox[4] - bbox[3]) + (bbox[6] - bbox[5])
  IN IF a <= 0 THEN {a} ELSE 1..a

\* the unit vectors lipnikov_grad can give as search direction, on the lattice
SearchDirections ==
  {<<1, 0, 0>>, <<-1, 0, 0>>, <<0, 1, 0>>, <<0, -1, 0>>, <<0, 0, 1>>, <<0, 0, -1>>}

\* alpha after its first halving, in steps of the lattice; the lengths of
\* the later trials follow from it
FirstSteps(X, NN, n0) == {a6 \div 12 : a6 \in SixAlphaValues(X, NN, n0)}

\* the line search of the Linf kernel from trial isearch on: the step is
\* alpha * search after isearch + 1 halvings, rounded towards x0; once the
\* step is zero the trials that remain are the same trial
RECURSIVE LinfSearch(_, _, _, _, _, _, _, _, _, _, _)
LinfSearch(o, X, M, EN, NE, q, n0, a1, search, worst, isearch) ==
  IF isearch >= SearchCap
  THEN [moved |-> FALSE, X |-> X, M |-> M, quality |-> q, p |-> X[n0], trials |-> isearch]
  ELSE LET step == [k \in 1..3 |-> search[k] * (a1 \div (2^isearch))]
           new_x0 == [k \in 1..3 |-> X[n0][k] + step[k]]
           g == generate_location_3d(o, X, M, EN, NE, n0, new_x0)
           new_q == [e \in NE[n0] |-> MovedQuality(o, X, M, EN, e, n0, new_x0, g.mp)]
       IN IF g.valid /\ \A e \in NE[n0] : FLess(worst, new_q[e])
          THEN [moved |-> TRUE,
                X |-> [X EXCEPT ![n0] = new_x0],
                M |-> [M EXCEPT ![n0] = g.mp],
                quality |-> [e \in DOMAIN q |-> IF e \in NE[n0] THEN new_q[e] ELSE q[e]],
                p |-> new_x0, trials |-> isearch + 1]
          ELSE IF step = <<0, 0, 0>>
          THEN [moved |-> FALSE, X |-> X, M |-> M, quality |-> q, p |-> X[n0],
                trials |-> SearchCap]
          ELSE LinfSearch(o, X, M, EN, NE, q, n0, a1, search, worst, isearch + 1)

\* as optimisation_linf_3d_kernel, searching whatever the worst quality is
optimisation_linf_3d_kernelAlways(o, X, M, EN, NN, NE, q, good_q, n0, a1, search) ==
  LinfSearch(o, X, M, EN, NE, q, n0, a1, search, CachedMin(q, SetToSeq(NE[n0])), 0)

\* optimisation_linf_3d_kernel(n0): nothing when the worst cached quality
\* of n0 is above good_q, else the line search
optimisation_linf_3d_kernel(o, X, M, EN, NN, NE, q, good_q, n0, a1, search) ==
  LET worst == CachedMin(q, SetToSeq(NE[n0]))
  IN IF FLess(good_q, worst) THEN Kept(X, M, q, X[n0])
     ELSE LinfSearch(o, X, M, EN, NE, q, n0, a1, search, worst, 0)

\* the kernel smooth runs for a method name: the Linf kernel, after a
\* warning, for a name that is not in the kernels map
KernelName(method) ==
  IF method \in {"Laplacian", "smart Laplacian", "optimisation Linf"} THEN method
  ELSE "optimisation Linf"

\* the entries of Mesh::_coords, Mesh::metric (by vertex) and of the cache
\* quality (by element) that one call of a kernel for node reads and
\* writes.  Read: the coordinates of the vertices of the elements of node;
\* the metric of node, the entry m[6] (both Laplacian kernels) and the
\* metrics of the element vertices (generate_location_3d that accepts, the
\* two functionals); the cache of the elements of node (functional_Linf,
\* the worst element).  Written: the coordinates and the metric of node
\* when it moves; the cache of its elements when it moves (update_quality,
\* new_quality) and the stale entries functional_Linf(node) computes again
KernelAccesses(kernel, EN, NE, q, node, moved) ==
  LET near == UNION {Range(EN[e]) : e \in NE[node]}
      stale == {e \in NE[node] : FLess(q[e], 0)}
  IN [reads |->
        {<<"coords", v>> : v \in near \cup {node}}
        \cup {<<"metric", v>> : v \in IF kernel = "Laplacian" /\ ~moved THEN {node}
                                       ELSE near \cup {node}}
        \cup (IF kernel = "optimisation Linf" THEN {}
              ELSE {<<"metric", M6Index(node) \div 6>>})
        \cup (IF kernel = "Laplacian" THEN {} ELSE {<<"quality", e>> : e \in NE[node]}),
      writes |->
        (IF moved THEN {<<"coords", node>>, <<"metric", node>>} ELSE {})
        \cup (IF kernel = "Laplacian" THEN {}
              ELSE {<<"quality", e>> : e \in IF moved THEN NE[node]
                                             ELSE IF kernel = "smart Laplacian" THEN stale
                                             ELSE {}})]

\* the vertices init_cache can put in a colour set
Colourable(G, EN, NN) ==
  {v \in DOMAIN NN : is_owned_node(G, v) /\ NN[v] # <<>> /\ ~is_boundary(EN, v)}

\* the colourings Colour::GebremedhinManne returns in the model: every
\* numbering from 1 of the vertices of Colourable in which neighbours
\* differ, with one more colour each for the other vertices
SmoothColourings(G, EN, NN) ==
  LET C == Colourable(G, EN, NN)
      n == Cardinality(C)
      valid == {g \in [C -> 1..(n + 1)] :
                  \A a, b \in C : (a # b /\ g[a] = g[b]) => ~Adjacent(NN, a, b)}
  IN {[v \in DOMAIN NN |->
         IF v \in C THEN g[v]
         ELSE n + 2 + Cardinality({w \in DOMAIN NN : w < v /\ w \notin C})] : g \in valid}

\* max_colour = colour_sets.rbegin()->first: the greatest colour; any word
\* when the map is empty
MaxColourValues(cs) ==
  IF DOMAIN cs = {} THEN {0, 1}
  ELSE {CHOOSE c \in DOMAIN cs : \A d \in DOMAIN cs : d <= c}

\* the smoother between two calls of smooth
SmIdle ==
  [pc |-> "idle", method |-> "", max_iterations |-> 0, quality_tol |-> 0,
   colour_sets |-> <<>>, max_colour |-> 0, quality |-> <<>>, good_q |-> 0,
   active_vertices |-> <<>>, iter |-> 0, ic |-> 0, cn |-> 0, sweeps |-> 0,
   visited |-> {}, X0 |-> <<>>, M0 |-> <<>>, lastk |-> <<>>, log |-> <<>>]

(* ---------------------------------------------------------------------- *)
(* State.                                                                 *)
(* ---------------------------------------------------------------------- *)
VARIABLES
  G,                     \* ndims, NNodes, NElements, coords, metric, orientation
  ENList, NNList, NEList, Edges,                       \* Mesh
  NSElements, SENList, coplanar_ids, SNEList, surface_nodes,   \* Surface
  L_low, L_max,          \* arguments of coarsen
  dynamic_vertex, recalculate_collapse, loop,          \* locals of coarsen
  colour, maximal_independent_set, idx,
  pc,                    \* "ready", "pass", "collapse", "done"
  last,                  \* the last call coarsen_kernel(rm, target): <<rm, target, on surface,
                         \*   neighbours of rm only, common neighbours, surface_nodes before>>
  calls,                 \* number of calls of coarsen so far
  warned,                \* the warning has been written to std::cerr in this call
  expected,              \* the mesh and surface that the collapses of this pass give
                         \*   in ascending order of the removed vertex (set by PassD1)
  sm,                    \* Smooth3D: the call of smooth in progress, its cache and its schedule;
                         \*   lastk is the last kernel call, m6 the place in Mesh::metric that
                         \*   laplacian_3d_kernel(node, p) reads as m[6];
                         \*   log lists the kernel calls of this call of smooth in their order
  ranks                  \* the ranks of a distributed mesh, <<>> when MPI is not initialised:
                         \*   ranks[r] holds the Mesh, the Surface and the locals of coarsen on rank r

meshvars == <<ENList, NNList, NEList, Edges>>

surfvars == <<NSElements, SENList, coplanar_ids, SNEList, surface_nodes>>

vars == <<G, ENList, NNList, NEList, Edges, NSElements, SENList, coplanar_ids, SNEList,
          surface_nodes, L_low, L_max, dynamic_vertex, recalculate_collapse, loop,
          colour, maximal_independent_set, idx, pc, last, calls, warned, expected, sm, ranks>>

coarsenvars == <<L_low, L_max, dynamic_vertex, recalculate_collapse, loop, colour,
                 maximal_independent_set, idx, pc, last, calls, warned, expected, ranks>>

Nodes == 0..(G.NNodes - 1)

MeshState == [ENList |-> ENList, NNList |-> NNList, NEList |-> NEList, Edges |-> Edges]

SurfaceState ==
  [NSElements |-> NSElements, SENList |-> SENList, coplanar_ids |-> coplanar_ids,
   SNEList |-> SNEList, surface_nodes |-> surface_nodes]

\* thresholds coarsen is called with (lenq of the length).  For the unit
\* cube BoxMesh(1) the identity metric stands for diag(0.25,0.25,0.25) in
\* units of 1/4, so that 18 and 72 are L_low = 1.5 and L_max = 3.
LLowInputs == {1, 3, 4, 9, 18}

LMaxInputs == {4, 10, 72, 200}

\* the pass cap of the main loop
LoopCap == 100

\* a long-run input: the triangle 0, ZipLen+2, ZipLen+1 with a row of ZipLen
\* interior vertices 1..ZipLen at height 1, each joined to its successor and
\* to the two far corners; vertex 0 touches only the first of the row.  The
\* metric of row vertex k is ZipA*(x - k*y)^2 + y^2, short towards vertex 0
\* and long along the row, so that one vertex per pass can be contracted
ZipLen == LoopCap - 1

ZipLLow == (ZipLen + 1) * (ZipLen + 1) + LoopCap

ZipA == ZipLLow \div 2

ZipLMax == 10 * ZipLLow

ZipMeshOf(n) ==
  [ndims |-> 2,
   NNodes |-> n + 3,
   NElements |-> 2 * n + 1,
   coords |-> [v \in 0..(n + 2) |->
                 IF v = 0 THEN <<0, 0>>
                 ELSE IF v <= n THEN <<v, 1>>
                 ELSE IF v = n + 1 THEN <<0, 2>>
                 ELSE <<2 * n + 1, 0>>],
   metric |-> [v \in 0..(n + 2) |->
                 IF v >= 1 /\ v <= n
                 THEN <<ZipA, 0 - ZipA * v, ZipA * v * v + 1>>
                 ELSE IdentityMetric(2)],
   ENList |-> [e \in 0..(2 * n) |->
                 IF e = 0 THEN <<0, 1, n + 1>>
                 ELSE IF e = 1 THEN <<0, n + 2, 1>>
                 ELSE IF e = 2 * n THEN <<n, n + 2, n + 1>>
                 ELSE IF e % 2 = 0 THEN <<e \div 2, e \div 2 + 1, n + 1>>
                 ELSE <<e \div 2, n + 2, e \div 2 + 1>>]]

\* the row as long as the cap allows to contract it before the last pass
ZipMesh == ZipMeshOf(ZipLen)

\* after Mesh, Surface and Coarsen have been constructed on an input mesh
ConstructedOn(m) ==
    LET S0 == find_surface(m)
    IN /\ G = [ndims |-> m.ndims, NNodes |-> m.NNodes, NElements |-> m.NElements,
               coords |-> m.coords, metric |-> m.metric, orientation |-> Orientation(m)]
       /\ ENList = m.ENList
       /\ NNList = InitNNList(m)
       /\ NEList = InitNEList(m)
       /\ Edges = InitEdges(m)
       /\ NSElements = S0.NSElements
       /\ SENList = S0.SENList
       /\ coplanar_ids = S0.coplanar_ids
       /\ SNEList = S0.SNEList
       /\ surface_nodes = S0.surface_nodes
       /\ L_low = 0
       /\ L_max = 0
       /\ dynamic_vertex = [v \in 0..(m.NNodes - 1) |-> -1]
       /\ recalculate_collapse = [v \in 0..(m.NNodes - 1) |-> FALSE]
       /\ loop = 0
       /\ colour = [v \in 0..(m.NNodes - 1) |-> 0]
       /\ maximal_independent_set = <<>>
       /\ idx = 0
       /\ pc = "ready"
       /\ last = <<>>
       /\ calls = 0
       /\ warned = FALSE
       /\ expected = <<>>
       /\ sm = SmIdle

Init == ranks = <<>> /\ \E m \in InputMeshes : ConstructedOn(m)

(* ---------------------------------------------------------------------- *)
(* Coarsen::coarsen.                                                      *)
(* ---------------------------------------------------------------------- *)
\* entry of coarsen(L_low, L_max): the first identify of every owned vertex
CoarsenCall(lows, highs) ==
  /\ pc = "ready"
  /\ \E lo \in lows, hi \in highs :
       /\ L_low' = lo
       /\ L_max' = hi
       /\ dynamic_vertex' = [i \in Nodes |->
             IF is_owned_node(G, i)
             THEN coarsen_identify_kernel(G, MeshState, SurfaceState, i, lo, hi)
             ELSE -1]
  /\ recalculate_collapse' = [i \in Nodes |-> FALSE]
  /\ loop' = 0
  /\ pc' = "pass"
  /\ calls' = calls + 1
  /\ warned' = FALSE
  /\ UNCHANGED <<G, meshvars, surfvars, colour, maximal_independent_set, idx, last, expected, sm, ranks>>

CoarsenBegin == CoarsenCall(LLowInputs, LMaxInputs)

\* as ColourSet, every vertex with a target whatever its colour
ColourSetAnyColour(col, dv, c) == SetToSeq({i \in DOMAIN col : col[i] >= 0 /\ dv[i] >= 0})

\* colour_sets[c]: the vertices of colour c with a target, ascending
ColourSet(col, dv, c) == SetToSeq({i \in DOMAIN col : col[i] = c /\ col[i] >= 0 /\ dv[i] >= 0})

\* as SelectSet, leaving the loop when max_colour < 2
SelectSetExitBelowTwo(col, dv) ==
  LET keys == {col[i] : i \in {j \in DOMAIN col : col[j] >= 0 /\ dv[j] >= 0}}
  IN IF keys = {} \/ \A c \in keys : c < 2 THEN <<>>
     ELSE LET max_colour == CHOOSE c \in keys : \A d \in keys : d <= c
              set_sizes == [k \in 0..(max_colour - 1) |-> Len(ColourSet(col, dv, k + 1))]
              max_id == CHOOSE k \in DOMAIN set_sizes :
                          /\ \A j \in DOMAIN set_sizes : set_sizes[j] <= set_sizes[k]
                          /\ \A j \in 0..(k - 1) : set_sizes[j] < set_sizes[k]
          IN ColourSet(col, dv, max_id + 1)

\* as SelectSet, always taking the class of colour 1
SelectSetFirstColour(col, dv) ==
  LET keys == {col[i] : i \in {j \in DOMAIN col : col[j] >= 0 /\ dv[j] >= 0}}
  IN IF keys = {} THEN <<>>
     ELSE ColourSet(col, dv, 1)

\* the set swapped into maximal_independent_set, <<>> when max_colour < 0
SelectSet(col, dv) ==
  LET keys == {col[i] : i \in {j \in DOMAIN col : col[j] >= 0 /\ dv[j] >= 0}}
  IN IF keys = {} THEN <<>>
     ELSE LET max_colour == CHOOSE c \in keys : \A d \in keys : d <= c
              set_sizes == [k \in 0..(max_colour - 1) |-> Len(ColourSet(col, dv, k + 1))]
              max_id == CHOOSE k \in DOMAIN set_sizes :
                          /\ \A j \in DOMAIN set_sizes : set_sizes[j] <= set_sizes[k]
                          /\ \A j \in 0..(k - 1) : set_sizes[j] < set_sizes[k]
          IN ColourSet(col, dv, max_id + 1)

\* head of one pass of the main loop: colouring, re-identification of the
\* flagged vertices, choice of the maximal independent set, or exit
\* "if(loop==99) std::cerr<<WARNING: possibly excessive coarsening" at the
\* head of the loop body
WarningDue(l) == l = LoopCap - 1

\* the orders in which the vertices of the set s can be processed
RECURSIVE Orders(_)
Orders(s) ==
  IF s = <<>> THEN {<<>>}
  ELSE UNION {{<<s[k]>> \o t : t \in Orders(RemoveAt(s, k))} : k \in DOMAIN s}

\* the mesh and the surface with every list that is scanned for membership
\* only taken as a set
AsSets(M, S) ==
  [ENList |-> M.ENList,
   NNList |-> [v \in DOMAIN M.NNList |-> Range(M.NNList[v])],
   NEList |-> M.NEList,
   Edges |-> M.Edges,
   SENList |-> S.SENList,
   SNEList |-> S.SNEList,
   surface_nodes |-> S.surface_nodes]

\* "Perform collapse operations" on the whole sequence s, from entry k on;
\* "undefined" once a call of coarsen_kernel breaks one of its asserts
RECURSIVE CollapseAll(_, _, _, _, _, _)
CollapseAll(Gm, M, S, dv, s, k) ==
  IF k > Len(s) THEN AsSets(M, S)
  ELSE IF dv[s[k]] < 0 THEN CollapseAll(Gm, M, S, dv, s, k + 1)
  ELSE IF ~KernelPrecondition(Gm, M, S, s[k], dv[s[k]]) THEN "undefined"
  ELSE LET r == coarsen_kernel(Gm, M, S, s[k], dv[s[k]])
       IN CollapseAll(Gm, r.M, r.S, dv, s, k + 1)

\* the head of a pass under a colouring of the given distance (0: the
\* distance-2 colourings of OracleColouringsAll); with reorder
\* the vertices of the selected set are processed in any order
PassStep(distance, reorder) ==
  /\ pc = "pass"
  /\ warned' = (warned \/ WarningDue(loop))
  /\ LET dv == [i \in Nodes |->
                  IF recalculate_collapse[i]
                  THEN coarsen_identify_kernel(G, MeshState, SurfaceState, i, L_low, L_max)
                  ELSE dynamic_vertex[i]]
         C == {i \in Nodes : dv[i] >= 0}
     IN \E col \in (IF distance = 2 THEN OracleColourings(NNList, C)
                    ELSE IF distance = 1 THEN OracleColourings1(NNList, C)
                    ELSE OracleColouringsAll(NNList, C)) :
          \E mis \in (IF reorder THEN Orders(SelectSet(col, dv)) ELSE {SelectSet(col, dv)}) :
             /\ colour' = col
             /\ dynamic_vertex' = dv
             /\ recalculate_collapse' = [i \in Nodes |-> FALSE]
             /\ maximal_independent_set' = mis
             /\ idx' = 0
             /\ pc' = IF mis = <<>> THEN "done" ELSE "collapse"
             /\ expected' = IF reorder
                            THEN CollapseAll(G, MeshState, SurfaceState, dv,
                                             SelectSet(col, dv), 1)
                            ELSE <<>>
  /\ UNCHANGED <<G, meshvars, surfvars, L_low, L_max, loop, last, calls, sm, ranks>>

Pass == PassStep(2, FALSE)

\* as FlagNeighbours, flagging no vertex
FlagNeighboursNone(rc, NN, target_vertex) == rc

\* as FlagNeighbours, flagging only the neighbours that had a target
FlagNeighboursCandidatesOnly(rc, NN, target_vertex) ==
  [i \in DOMAIN rc |-> rc[i] \/ (i \in Range(NN[target_vertex]) /\ dynamic_vertex[i] >= 0)]

\* "recalculate_collapse[*it] = true" for every neighbour of target_vertex
FlagNeighbours(rc, NN, target_vertex) ==
  [i \in DOMAIN rc |-> rc[i] \/ i \in Range(NN[target_vertex])]

\* one iteration of "Perform collapse operations"
Collapse ==
  /\ pc = "collapse"
  /\ idx < Len(maximal_independent_set)
  /\ LET rm_vertex == maximal_independent_set[idx + 1]
         target_vertex == dynamic_vertex[rm_vertex]
         r == coarsen_kernel(G, MeshState, SurfaceState, rm_vertex, target_vertex)
         dv1 == IF is_owned_node(G, target_vertex)
                THEN [dynamic_vertex EXCEPT ![target_vertex] =
                        coarsen_identify_kernel(G, r.M, r.S, target_vertex, L_low, L_max)]
                ELSE dynamic_vertex
     IN IF target_vertex < 0
        THEN UNCHANGED <<meshvars, SENList, SNEList, surface_nodes, dynamic_vertex,
                         recalculate_collapse, last>>
        ELSE /\ ENList' = r.M.ENList
             /\ NNList' = r.M.NNList
             /\ NEList' = r.M.NEList
             /\ Edges' = r.M.Edges
             /\ SENList' = r.S.SENList
             /\ SNEList' = r.S.SNEList
             /\ surface_nodes' = r.S.surface_nodes
             /\ dynamic_vertex' = [dv1 EXCEPT ![rm_vertex] = -1]
             /\ recalculate_collapse' =
                  FlagNeighbours(recalculate_collapse, r.M.NNList, target_vertex)
             /\ last' = <<rm_vertex, target_vertex,
                          contains_node(SurfaceState, rm_vertex)
                            /\ contains_node(SurfaceState, target_vertex),
                          (Range(NNList[rm_vertex]) \ Range(NNList[target_vertex]))
                            \ {target_vertex},
                          Range(NNList[rm_vertex]) \cap Range(NNList[target_vertex]),
                          surface_nodes>>
  /\ idx' = idx + 1
  /\ UNCHANGED <<G, NSElements, coplanar_ids, L_low, L_max, loop, colour,
                 maximal_independent_set, pc, calls, warned, expected, sm, ranks>>

\* end of the pass: loop++ and the test loop < 100
EndPass ==
  /\ pc = "collapse"
  /\ idx = Len(maximal_independent_set)
  /\ loop' = loop + 1
  /\ pc' = IF loop + 1 < LoopCap THEN "pass" ELSE "done"
  /\ UNCHANGED <<G, meshvars, surfvars, L_low, L_max, dynamic_vertex, recalculate_collapse,
                 colour, maximal_independent_set, idx, last, calls, warned, expected, sm, ranks>>

Next == CoarsenBegin \/ Pass \/ Collapse \/ EndPass

Spec == Init /\ [][Next]_vars

\* coarsen(ZipLLow, ZipLMax) on the long-run input
CoarsenBeginLong == CoarsenCall({ZipLLow}, {ZipLMax})

NextLong == CoarsenBeginLong \/ Pass \/ Collapse \/ EndPass

InitLong == ranks = <<>> /\ ConstructedOn(ZipMesh)

SpecLong == InitLong /\ [][NextLong]_vars

\* the same call on that input and on the row one vertex longer, which has
\* a vertex to contract in every pass the cap allows
InitCap == ranks = <<>> /\ \E m \in {ZipMesh, ZipMeshOf(LoopCap)} : ConstructedOn(m)

SpecCap == InitCap /\ [][NextLong]_vars

\* coarsen with an oracle that returns any distance-1 colouring, the
\* collapses of a pass applied in any order
PassD1 == PassStep(1, TRUE)

NextD1 == CoarsenBegin \/ PassD1 \/ Collapse \/ EndPass

SpecD1 == Init /\ [][NextD1]_vars

\* coarsen on a longer strip with an oracle that returns distance-2
\* colourings with two free classes, numbered first or last
PassAll == PassStep(0, FALSE)

CoarsenBeginAll == CoarsenCall({4, 9}, {10})

NextAll == CoarsenBeginAll \/ PassAll \/ Collapse \/ EndPass

InitAll == ranks = <<>> /\ ConstructedOn(GridMesh(5))

SpecAll == InitAll /\ [][NextAll]_vars

\* a step of the thread inside the main loop of coarsen: every step of a
\* pass moves the program counter or the index into the independent set
Running ==
  /\ pc \in {"pass", "collapse"}
  /\ pc' \in {"pass", "collapse", "done"}
  /\ idx' \in 0..G.NNodes
  /\ <<pc', idx'>> # <<pc, idx>>

\* coarsen is sequential code: once called, the thread goes on executing
SpecFair == Spec /\ WF_<<pc, idx>>(Running)

(* ---------------------------------------------------------------------- *)
(* A second call coarsen(L_low, L_max) with the same thresholds on the    *)
(* mesh and surface the first call has left.                              *)
(* ---------------------------------------------------------------------- *)
CoarsenAgain ==
  /\ pc = "done"
  /\ calls = 1
  /\ loop < LoopCap
  /\ dynamic_vertex' = [i \in Nodes |->
        IF is_owned_node(G, i)
        THEN coarsen_identify_kernel(G, MeshState, SurfaceState, i, L_low, L_max)
        ELSE -1]
  /\ recalculate_collapse' = [i \in Nodes |-> FALSE]
  /\ loop' = 0
  /\ pc' = "pass"
  /\ calls' = 2
  /\ warned' = FALSE
  /\ UNCHANGED <<G, meshvars, surfvars, L_low, L_max, colour, maximal_independent_set, idx, last,
                 expected, sm, ranks>>

NextAgain == Next \/ CoarsenAgain

SpecAgain == Init /\ [][NextAgain]_vars

(* ---------------------------------------------------------------------- *)
(* Construction of a new Surface on the coarsened mesh.                   *)
(* ---------------------------------------------------------------------- *)
\* find_surface does not skip erased elements, so a facet can hold the
\* vertex -1; get_x(-1), get_y(-1), get_z(-1) then read in front of the
\* coordinate array.  The value read is drawn from this set.
GarbageCoords(nd) ==
  IF nd = 2 THEN {<<0, 0>>, <<1, 2>>} ELSE {<<0, 0, 0>>, <<1, 2, 1>>}

\* Surface::Surface(mesh) after coarsen has returned: find_surface and
\* calculate_coplanar_ids on the current element list
Reextract ==
  /\ pc = "done"
  /\ \E g \in GarbageCoords(G.ndims) :
       LET m == [ndims |-> G.ndims, NNodes |-> G.NNodes, NElements |-> G.NElements,
                 coords |-> (-1 :> g) @@ G.coords, metric |-> G.metric, ENList |-> ENList]
           S0 == find_surface(m)
       IN /\ NSElements' = S0.NSElements
          /\ SENList' = S0.SENList
          /\ coplanar_ids' = S0.coplanar_ids
          /\ SNEList' = S0.SNEList
          /\ surface_nodes' = S0.surface_nodes
  /\ pc' = "reextracted"
  /\ UNCHANGED <<G, meshvars, L_low, L_max, dynamic_vertex, recalculate_collapse, loop,
                 colour, maximal_independent_set, idx, last, calls, warned, expected, sm, ranks>>

NextReextract == Next \/ Reextract

SpecReextract == Init /\ [][NextReextract]_vars

(* ---------------------------------------------------------------------- *)
(* Smooth3D::smooth on the mesh of the state.                             *)
(* ---------------------------------------------------------------------- *)
\* the arguments of smooth
\* smooth(method, max_iterations, quality_tol) up to the first sweep:
\* init_cache with the colouring col, the kernel, the mask, max_colour
SmoothCall(methods, iterations, tols) ==
  /\ pc = "ready"
  /\ sm.pc = "idle"
  /\ \E method \in methods, max_iterations \in iterations, quality_tol \in tols :
       \E col \in SmoothColourings(G, ENList, NNList) :
         LET cs == ColourSets(G, ENList, NNList, col)
             q == InitQuality(G.orientation, G.coords, G.metric, ENList)
         IN \E max_colour \in MaxColourValues(cs) :
              sm' = [pc |-> "sweep",
                     method |-> method,
                     max_iterations |-> max_iterations,
                     quality_tol |-> quality_tol,
                     colour_sets |-> cs,
                     max_colour |-> max_colour,
                     quality |-> q,
                     good_q |-> InitGoodQ(q, ENList),
                     active_vertices |-> [v \in Nodes |-> 0],
                     iter |-> 0, ic |-> 1, cn |-> 0,
                     sweeps |-> 1,
                     visited |-> {},
                     X0 |-> G.coords,
                     M0 |-> G.metric,
                     lastk |-> <<>>,
                     log |-> <<>>]
  /\ UNCHANGED <<G, meshvars, surfvars, coarsenvars>>

\* the calls of smooth: the three methods and a name that is none of them,
\* no sweep asked for, one and three, quality_tol at its default and at 0.5
SmoothBegin ==
  SmoothCall({"Laplacian", "smart Laplacian", "optimisation Linf", "Linf"},
             {0, 1, 3}, {0 - 1, QOne \div 2})

\* the vertex the loop over colour_sets[ic] is at
AtVertex ==
  /\ sm.pc = "sweep"
  /\ sm.ic <= sm.max_colour
  /\ sm.ic \in DOMAIN sm.colour_sets
  /\ sm.cn < Len(sm.colour_sets[sm.ic])

\* as Passed, with no vertex passed over
PassedNever(iter, active, node) == FALSE

\* the vertex is passed over: in a sweep after the first its entry of
\* active_vertices is 0
Passed(iter, active, node) == iter > 0 /\ active[node] = 0

\* one pass of the loop over the vertices of a colour: the kernel of the
\* method on the vertex (in a later sweep only if it is active, after
\* its mask is reset), then the neighbours of a moved vertex are marked
SmoothVisit ==
  /\ AtVertex
  /\ LET node == sm.colour_sets[sm.ic][sm.cn + 1]
         kernel == KernelName(sm.method)
         before == [coords |-> G.coords, metric |-> G.metric, quality |-> sm.quality]
     IN IF Passed(sm.iter, sm.active_vertices, node)
        THEN /\ sm' = [sm EXCEPT !.cn = @ + 1]
             /\ UNCHANGED G
        ELSE \E m6 \in (IF kernel = "optimisation Linf" THEN {0} ELSE M6Values(G.metric, node)) :
             \E a1 \in (IF kernel = "optimisation Linf"
                        THEN FirstSteps(G.coords, NNList, node) ELSE {0}) :
             \E search \in (IF kernel = "optimisation Linf"
                            THEN SearchDirections ELSE {<<0, 0, 0>>}) :
             \E r \in {IF kernel = "Laplacian"
                        THEN laplacian_3d_kernel(G.orientation, G.coords, G.metric, ENList,
                                                 NNList, NEList, sm.quality, node, m6)
                        ELSE IF kernel = "smart Laplacian"
                        THEN smart_laplacian_3d_kernel(G.orientation, G.coords, G.metric, ENList,
                                                       NNList, NEList, sm.quality, node, m6)
                        ELSE optimisation_linf_3d_kernel(G.orientation, G.coords, G.metric, ENList,
                                                         NNList, NEList, sm.quality, sm.good_q,
                                                         node, a1, search)} :
               LET reset == IF sm.iter > 0 THEN [sm.active_vertices EXCEPT ![node] = 0]
                            ELSE sm.active_vertices
               IN /\ G' = [G EXCEPT !.coords = r.X, !.metric = r.M]
                  /\ sm' = [sm EXCEPT !.quality = r.quality,
                                      !.active_vertices =
                                        [v \in DOMAIN reset |->
                                           IF r.moved /\ v \in Range(NNList[node])
                                           THEN 1 ELSE reset[v]],
                                      !.cn = @ + 1,
                                      !.visited = @ \cup {node},
                                      !.lastk = [node |-> node, kernel |-> kernel,
                                                 moved |-> r.moved, p |-> r.p,
                                                 trials |-> r.trials, before |-> before,
                                                 m6 |-> M6Index(node)],
                                      !.log = Append(@, [sweep |-> sm.sweeps, node |-> node,
                                                         moved |-> r.moved,
                                                         access |-> KernelAccesses(kernel, ENList,
                                                                      NEList, sm.quality, node,
                                                                      r.moved)])]
  /\ UNCHANGED <<meshvars, surfvars, coarsenvars>>

\* the end of the loop over one colour
SmoothNextColour ==
  /\ sm.pc = "sweep"
  /\ sm.ic <= sm.max_colour
  /\ ~AtVertex
  /\ sm' = [sm EXCEPT !.ic = @ + 1, !.cn = 0]
  /\ UNCHANGED <<G, meshvars, surfvars, coarsenvars>>

\* as SmoothNextSweep, one more sweep also when iter + 1 = max_iterations
SmoothNextSweepOneMore ==
  /\ sm.pc = "sweep"
  /\ sm.ic > sm.max_colour
  /\ sm.iter + 1 <= sm.max_iterations
  /\ sm' = [sm EXCEPT !.iter = @ + 1, !.ic = 1, !.cn = 0, !.sweeps = @ + 1]
  /\ UNCHANGED <<G, meshvars, surfvars, coarsenvars>>

\* the end of a sweep when iter + 1 < max_iterations: one more sweep
SmoothNextSweep ==
  /\ sm.pc = "sweep"
  /\ sm.ic > sm.max_colour
  /\ sm.iter + 1 < sm.max_iterations
  /\ sm' = [sm EXCEPT !.iter = @ + 1, !.ic = 1, !.cn = 0, !.sweeps = @ + 1]
  /\ UNCHANGED <<G, meshvars, surfvars, coarsenvars>>

\* the end of the last sweep: smooth returns
SmoothReturn ==
  /\ sm.pc = "sweep"
  /\ sm.ic > sm.max_colour
  /\ ~(sm.iter + 1 < sm.max_iterations)
  /\ sm' = [sm EXCEPT !.pc = "done"]
  /\ UNCHANGED <<G, meshvars, surfvars, coarsenvars>>

NextSmooth == SmoothBegin \/ SmoothVisit \/ SmoothNextColour \/ SmoothNextSweep \/ SmoothReturn

InitSmooth == ranks = <<>> /\ \E m \in SmoothMeshes : ConstructedOn(m)

SpecSmooth == InitSmooth /\ [][NextSmooth]_vars

(* ---------------------------------------------------------------------- *)
(* Coarsen::coarsen on a distributed mesh of two ranks (MPI initialised,  *)
(* nprocs = 2).  The collectives MPI_Allreduce, MPI_Alltoall and          *)
(* MPI_Waitall keep the ranks in the same pass; between them every rank   *)
(* works on its own Mesh and Surface.  L_low, L_max, loop, pc and warned  *)
(* are those of every rank.  ranks[r] holds                               *)
(*   G, M, S   the Mesh and the Surface of rank r in its local numbering, *)
(*             G with owner, rank and recv_halo;                          *)
(*   lnn2gnn, send, recv   the global ids and the halo lists shared with  *)
(*             the other rank;                                            *)
(*   dynamic_vertex, recalculate_collapse, maximal_independent_set, idx   *)
(*             the locals of coarsen;                                     *)
(*   known0    the global ids known at the head of the pass, got the      *)
(*             pairs <<rm_vertex, target_vertex>> unpacked in the pass,   *)
(*             removed the vertices erased in the pass;                   *)
(*   status    "ok", or "aborted" once an assert has stopped the rank.    *)
(* Mesh::append_vertex and Mesh::append_element add at the end of their   *)
(* arrays; Surface::find_facets gives the facets whose vertices belong to *)
(* the element; Surface::append_facet adds the facet at the end and       *)
(* enters it in SNEList and surface_nodes; Edge(a, b) has no length yet   *)
(* (written -1).                                                          *)
(* ---------------------------------------------------------------------- *)
\* what the file loader hands to the two ranks: rank r holds the elements
\* with a vertex it owns and the vertices of these elements, both in
\* ascending global order; send and recv list the vertices both ranks hold
InitRanks ==
  \E m \in {SquareMesh} :
    /\ ConstructedOn(m)
    /\ \E own1 \in {{2, 5, 8}, {0}, {8}, {0, 1, 2}} :
         LET owner == [g \in 0..(m.NNodes - 1) |-> IF g \in own1 THEN 1 ELSE 0]
             held(r) == {e \in 0..(m.NElements - 1) :
                           \E k \in DOMAIN m.ENList[e] : owner[m.ENList[e][k]] = r}
             nodes(r) == UNION {Range(m.ENList[e]) : e \in held(r)}
         IN ranks =
              [r \in 0..1 |->
                 LET els == SetToSeq(held(r))
                     gs == SetToSeq(nodes(r))
                     lm == [ndims |-> m.ndims,
                            NNodes |-> Len(gs),
                            NElements |-> Len(els),
                            coords |-> [l \in 0..(Len(gs) - 1) |-> m.coords[gs[l + 1]]],
                            metric |-> [l \in 0..(Len(gs) - 1) |-> m.metric[gs[l + 1]]],
                            ENList |-> [e \in 0..(Len(els) - 1) |->
                                          [k \in DOMAIN m.ENList[els[e + 1]] |->
                                             FindFirst(gs, m.ENList[els[e + 1]][k]) - 1]]]
                     recv == SetToSeq({l \in 0..(Len(gs) - 1) : owner[gs[l + 1]] # r})
                 IN [G |-> [ndims |-> lm.ndims, NNodes |-> lm.NNodes,
                            NElements |-> lm.NElements, coords |-> lm.coords,
                            metric |-> lm.metric, orientation |-> Orientation(lm),
                            owner |-> [l \in 0..(Len(gs) - 1) |-> owner[gs[l + 1]]],
                            rank |-> r,
                            recv_halo |-> Range(recv)],
                     M |-> [ENList |-> lm.ENList, NNList |-> InitNNList(lm),
                            NEList |-> InitNEList(lm), Edges |-> InitEdges(lm)],
                     S |-> find_surface(lm),
                     lnn2gnn |-> [l \in 0..(Len(gs) - 1) |-> gs[l + 1]],
                     send |-> SetToSeq({l \in 0..(Len(gs) - 1) :
                                          owner[gs[l + 1]] = r /\ gs[l + 1] \in nodes(1 - r)}),
                     recv |-> recv,
                     dynamic_vertex |-> [l \in 0..(Len(gs) - 1) |-> -1],
                     recalculate_collapse |-> [l \in 0..(Len(gs) - 1) |-> FALSE],
                     maximal_independent_set |-> <<>>,
                     idx |-> 0,
                     known0 |-> nodes(r),
                     got |-> <<>>,
                     removed |-> {},
                     status |-> "ok"]]

\* entry of coarsen(L_low, L_max) on every rank: the first identify of the
\* vertices the rank owns
RanksCall ==
  /\ pc = "ready"
  /\ \E lo \in {3, 9}, hi \in {10, 200} :
       /\ L_low' = lo
       /\ L_max' = hi
       /\ ranks' = [r \in DOMAIN ranks |->
                      [ranks[r] EXCEPT
                         !.dynamic_vertex =
                            [i \in DOMAIN @ |->
                               IF is_owned_node(ranks[r].G, i)
                               THEN coarsen_identify_kernel(ranks[r].G, ranks[r].M, ranks[r].S,
                                                            i, lo, hi)
                               ELSE -1],
                         !.recalculate_collapse = [i \in DOMAIN @ |-> FALSE]]]
  /\ loop' = 0
  /\ pc' = "pass"
  /\ calls' = calls + 1
  /\ warned' = FALSE
  /\ UNCHANGED <<G, meshvars, surfvars, dynamic_vertex, recalculate_collapse, colour,
                 maximal_independent_set, idx, last, expected, sm>>

\* the head of a pass on every rank and "Communicate collapses": the flagged
\* vertices are identified again, zoltan_colour colours the distributed
\* graph, the two MPI_Allreduce choose the colour, and every rank packs its
\* send_buffer, unpacks what it receives and updates its halo
RanksPass ==
  /\ pc = "pass"
  /\ ranks # <<>>
  /\ warned' = (warned \/ WarningDue(loop))
  /\ \E dv \in {[r \in DOMAIN ranks |->
                   [i \in DOMAIN ranks[r].dynamic_vertex |->
                      IF ranks[r].recalculate_collapse[i]
                      THEN coarsen_identify_kernel(ranks[r].G, ranks[r].M, ranks[r].S,
                                                   i, L_low, L_max)
                      ELSE ranks[r].dynamic_vertex[i]]]} :
    \E gnn2lnn \in {[r \in DOMAIN ranks |->
                       [g \in Range(ranks[r].lnn2gnn) |->
                          CHOOSE l \in DOMAIN ranks[r].lnn2gnn : ranks[r].lnn2gnn[l] = g]]} :
    \E home \in {[g \in UNION {Range(ranks[r].lnn2gnn) : r \in DOMAIN ranks} |->
                    CHOOSE r \in DOMAIN ranks :
                      g \in DOMAIN gnn2lnn[r] /\ ranks[r].G.owner[gnn2lnn[r][g]] = r]} :
    \* the graph given to zoltan_colour: the NNList of every owned vertex
    \E graph \in {[g \in DOMAIN home |->
                     SetToSeq({ranks[home[g]].lnn2gnn[w] :
                                 w \in Range(ranks[home[g]].M.NNList[gnn2lnn[home[g]][g]])})]} :
    \E col \in OracleColourings(graph, {g \in DOMAIN home : dv[home[g]][gnn2lnn[home[g]][g]] >= 0}) :
    \E own \in {LET colour_of(r) == [i \in DOMAIN ranks[r].lnn2gnn |-> col[ranks[r].lnn2gnn[i]]]
                    keys(r) == {colour_of(r)[i] :
                                  i \in {j \in DOMAIN dv[r] : colour_of(r)[j] >= 0 /\ dv[r][j] >= 0}}
                    top(r) == IF keys(r) = {} THEN -1
                              ELSE CHOOSE c \in keys(r) : \A d \in keys(r) : d <= c
                    \* MPI_Allreduce(MPI_MAX) and MPI_Allreduce(MPI_SUM)
                    max_colour == Max2(top(0), top(1))
                    set_sizes == [k \in 0..(max_colour - 1) |->
                                    Len(ColourSet(colour_of(0), dv[0], k + 1))
                                      + Len(ColourSet(colour_of(1), dv[1], k + 1))]
                    max_id == CHOOSE k \in DOMAIN set_sizes :
                                /\ \A j \in DOMAIN set_sizes : set_sizes[j] <= set_sizes[k]
                                /\ \A j \in 0..(k - 1) : set_sizes[j] < set_sizes[k]
                IN [max_colour |-> max_colour,
                    set |-> [r \in DOMAIN ranks |->
                               IF max_colour < 0 THEN <<>>
                               ELSE ColourSet(colour_of(r), dv[r], max_id + 1)]]} :
    \* send_buffer of rank r for the other rank
    \E send_buffer \in
         {[r \in DOMAIN ranks |->
             LET R == ranks[r]
                 \* "Cache who knows what" and Mesh::is_halo_node
                 known_nodes == Range(R.send) \cup Range(R.recv)
                 halo == Range(R.send) \cup R.G.recv_halo
                 I == SetToSeq({i \in DOMAIN own.set[r] :
                                  own.set[r][i] \in halo /\ own.set[r][i] \in known_nodes})
                 out == [j \in DOMAIN I |-> own.set[r][I[j]]]
                 elements0 == UNION {R.M.NEList[out[i]] : i \in DOMAIN out}
                 ns == SetToSeq({n \in UNION {Range(R.M.ENList[e]) : e \in elements0} :
                                   n \notin known_nodes})
                 send_elements == {e \in elements0 :
                                     \A k \in DOMAIN R.M.ENList[e] :
                                        R.G.owner[R.M.ENList[e][k]] # 1 - r}
                 es == SetToSeq(send_elements)
                 fs == SetToSeq({f \in DOMAIN R.S.SENList :
                                   \E e \in send_elements :
                                      Range(R.S.SENList[f]) \subseteq Range(R.M.ENList[e])})
             IN [nodes |-> [i \in DOMAIN ns |->
                              [gnn |-> R.lnn2gnn[ns[i]],
                               owner |-> R.G.owner[ns[i]],
                               coords |-> R.G.coords[ns[i]],
                               metric |-> R.G.metric[ns[i]]]],
                 edges |-> [i \in DOMAIN out |->
                              <<R.lnn2gnn[out[i]], R.lnn2gnn[dv[r][out[i]]]>>],
                 elements |-> [i \in DOMAIN es |->
                                 [k \in DOMAIN R.M.ENList[es[i]] |->
                                    R.lnn2gnn[R.M.ENList[es[i]][k]]]],
                 facets |-> [i \in DOMAIN fs |->
                               [n |-> [k \in DOMAIN R.S.SENList[fs[i]] |->
                                         R.lnn2gnn[R.S.SENList[fs[i]][k]]],
                                coplanar_id |-> R.S.coplanar_ids[fs[i]]]]]]} :
    \* "Unpack received data": the vertices that are new to rank p are appended
    \E lnn2gnn \in
         {[p \in DOMAIN ranks |->
             LET b == send_buffer[1 - p]
                 N0 == ranks[p].G.NNodes
                 fresh == SetToSeq({i \in DOMAIN b.nodes : b.nodes[i].gnn \notin DOMAIN gnn2lnn[p]})
             IN [l \in 0..(N0 + Len(fresh) - 1) |->
                   IF l < N0 THEN ranks[p].lnn2gnn[l] ELSE b.nodes[fresh[l - N0 + 1]].gnn]]} :
    \* the buffer received by rank p in the numbering of rank p; operator[] of
    \* std::map gives 0 for a global number that is not known
    \E recv_buffer \in
         {[p \in DOMAIN ranks |->
             LET b == send_buffer[1 - p]
                 lnn(g) == IF \E l \in DOMAIN lnn2gnn[p] : lnn2gnn[p][l] = g
                           THEN CHOOSE l \in DOMAIN lnn2gnn[p] : lnn2gnn[p][l] = g
                           ELSE 0
             IN [nodes |-> [i \in DOMAIN b.nodes |->
                              [lnn |-> lnn(b.nodes[i].gnn),
                               owner |-> b.nodes[i].owner,
                               coords |-> b.nodes[i].coords,
                               metric |-> b.nodes[i].metric]],
                 edges |-> [i \in DOMAIN b.edges |-> <<lnn(b.edges[i][1]), lnn(b.edges[i][2])>>],
                 elements |-> [i \in DOMAIN b.elements |->
                                 [k \in DOMAIN b.elements[i] |-> lnn(b.elements[i][k])]],
                 facets |-> [i \in DOMAIN b.facets |->
                               [b.facets[i] EXCEPT !.n = [k \in DOMAIN @ |-> lnn(@[k])]]],
                 \* extra_halo_receives for the other rank
                 extra |-> LET s == SetToSeq({b.nodes[i].gnn :
                                                i \in {j \in DOMAIN b.nodes :
                                                         b.nodes[j].owner = 1 - p}})
                           IN [j \in DOMAIN s |-> lnn(s[j])],
                 \* the vertices of rank p that the other rank has received
                 told |-> LET s == SetToSeq({send_buffer[p].nodes[i].gnn :
                                               i \in {j \in DOMAIN send_buffer[p].nodes :
                                                        send_buffer[p].nodes[j].owner = p}})
                          IN [j \in DOMAIN s |-> lnn(s[j])]]]} :
    \* "See if this is a new element": the elements with an edge that is new
    \E added \in
         {[p \in DOMAIN ranks |->
             LET els == recv_buffer[p].elements
                 pairs(n) == {EdgeKey(n[q[1]], n[q[2]]) : q \in LocalPairs(Len(n))}
             IN CHOOSE A \in SUBSET DOMAIN els :
                  \A i \in DOMAIN els :
                     (i \in A) <=>
                       \E key \in pairs(els[i]) :
                          /\ key \notin DOMAIN ranks[p].M.Edges
                          /\ \A j \in A : j < i => key \notin pairs(els[j])]} :
    \E asserted \in BOOLEAN :
      LET unpacked(p) ==
            LET R == ranks[p]
                b == recv_buffer[p]
                N0 == R.G.NNodes
                N1 == Cardinality(DOMAIN lnn2gnn[p])
                at(l) == b.nodes[CHOOSE i \in DOMAIN b.nodes : b.nodes[i].lnn = l]
                got == b.edges
                dv0 == [l \in 0..(N1 - 1) |-> IF l < N0 THEN dv[p][l] ELSE -1]
                els == b.elements
                pairs(n) == {EdgeKey(n[q[1]], n[q[2]]) : q \in LocalPairs(Len(n))}
                adds == SetToSeq(added[p])
                NE0 == R.G.NElements
                eid(i) == NE0 + FindFirst(adds, i) - 1
                with(v) == {i \in added[p] : v \in Range(els[i])}
                old(v) == IF v < N0 THEN R.M.NNList[v] ELSE <<>>
                pushed(v) == {w \in 0..(N1 - 1) :
                                /\ w # v
                                /\ w \notin Range(old(v))
                                /\ with(v) \cap with(w) # {}}
                \* the place of the push_back of w on NNList[v] in the loops
                when(v, w) ==
                  LET T == {100 * i
                              + 10 * Min2(FindFirst(els[i], v), FindFirst(els[i], w))
                              + Max2(FindFirst(els[i], v), FindFirst(els[i], w)) :
                            i \in with(v) \cap with(w)}
                  IN CHOOSE t \in T : \A u \in T : t <= u
                newkeys == UNION {pairs(els[i]) : i \in added[p]}
                NS0 == R.S.NSElements
                fac == b.facets
            IN [G |-> [R.G EXCEPT
                         !.NNodes = N1,
                         !.NElements = NE0 + Len(adds),
                         !.coords = [l \in 0..(N1 - 1) |-> IF l < N0 THEN @[l] ELSE at(l).coords],
                         !.metric = [l \in 0..(N1 - 1) |-> IF l < N0 THEN @[l] ELSE at(l).metric],
                         !.owner = [l \in 0..(N1 - 1) |-> IF l < N0 THEN @[l] ELSE at(l).owner],
                         !.recv_halo = @ \cup {b.nodes[i].lnn : i \in DOMAIN b.nodes}],
                M |-> [ENList |-> [e \in 0..(NE0 + Len(adds) - 1) |->
                                     IF e < NE0 THEN R.M.ENList[e] ELSE els[adds[e - NE0 + 1]]],
                       NNList |-> [v \in 0..(N1 - 1) |->
                                     LET order == SetToSeq({when(v, w) : w \in pushed(v)})
                                     IN old(v) \o [j \in DOMAIN order |->
                                                    CHOOSE w \in pushed(v) : when(v, w) = order[j]]],
                       NEList |-> [v \in 0..(N1 - 1) |->
                                     (IF v < N0 THEN R.M.NEList[v] ELSE {})
                                       \cup {eid(i) : i \in with(v)}],
                       Edges |-> [key \in DOMAIN R.M.Edges \cup newkeys |->
                                    IF key \in newkeys
                                    THEN [adjacent_elements |->
                                            (IF key \in DOMAIN R.M.Edges
                                             THEN R.M.Edges[key].adjacent_elements ELSE {})
                                              \cup {eid(i) : i \in {j \in added[p] : key \in pairs(els[j])}},
                                          length |-> -1]
                                    ELSE R.M.Edges[key]]],
                S |-> [NSElements |-> NS0 + Len(fac),
                       SENList |-> [f \in 0..(NS0 + Len(fac) - 1) |->
                                      IF f < NS0 THEN R.S.SENList[f] ELSE fac[f - NS0 + 1].n],
                       coplanar_ids |-> [f \in 0..(NS0 + Len(fac) - 1) |->
                                           IF f < NS0 THEN R.S.coplanar_ids[f]
                                           ELSE fac[f - NS0 + 1].coplanar_id],
                       SNEList |-> [v \in 0..(N1 - 1) |->
                                      (IF v < N0 THEN R.S.SNEList[v] ELSE {})
                                        \cup {NS0 + i - 1 : i \in {j \in DOMAIN fac : v \in Range(fac[j].n)}}],
                       surface_nodes |-> R.S.surface_nodes
                                           \cup UNION {Range(fac[i].n) : i \in DOMAIN fac}],
                lnn2gnn |-> lnn2gnn[p],
                \* "Update halo"
                send |-> R.send \o b.told,
                recv |-> R.recv \o b.extra,
                dynamic_vertex |-> [l \in 0..(N1 - 1) |->
                                      IF \E i \in DOMAIN got : got[i][1] = l
                                      THEN got[CHOOSE i \in DOMAIN got :
                                                 got[i][1] = l
                                                   /\ \A j \in DOMAIN got : got[j][1] = l => j <= i][2]
                                      ELSE dv0[l]],
                recalculate_collapse |-> [l \in 0..(N1 - 1) |-> FALSE],
                maximal_independent_set |-> own.set[p] \o [i \in DOMAIN got |-> got[i][1]],
                idx |-> 0,
                known0 |-> Range(R.lnn2gnn),
                got |-> got,
                removed |-> {},
                \* assert(dynamic_vertex[rm_vertex]<0)
                status |-> IF asserted
                              /\ \E i \in DOMAIN got :
                                    \/ dv0[got[i][1]] >= 0
                                    \/ \E j \in 1..(i - 1) : got[j][1] = got[i][1]
                           THEN "aborted" ELSE "ok"]
      IN IF own.max_colour < 0
         THEN /\ asserted
              /\ pc' = "done"
              /\ ranks' = [r \in DOMAIN ranks |->
                             [ranks[r] EXCEPT
                                !.dynamic_vertex = dv[r],
                                !.recalculate_collapse = [i \in DOMAIN @ |-> FALSE],
                                !.maximal_independent_set = <<>>,
                                !.idx = 0,
                                !.got = <<>>,
                                !.removed = {}]]
         ELSE /\ pc' = "collapse"
              /\ ranks' = [r \in DOMAIN ranks |-> unpacked(r)]
  /\ UNCHANGED <<G, meshvars, surfvars, L_low, L_max, dynamic_vertex, recalculate_collapse,
                 loop, colour, maximal_independent_set, idx, last, calls, expected, sm>>

\* one iteration of "Perform collapse operations" on rank r.  The asserts
\* of coarsen_kernel and of Surface::collapse stop the rank when they are
\* compiled in; a failed Edges.find that is dereferenced stops it too.
RanksCollapse(r) ==
  /\ pc = "collapse"
  /\ ranks[r].status = "ok"
  /\ ranks[r].idx < Len(ranks[r].maximal_independent_set)
  /\ LET R == ranks[r]
         rm_vertex == R.maximal_independent_set[R.idx + 1]
         target_vertex == R.dynamic_vertex[rm_vertex]
         no_surface == [R.S EXCEPT !.surface_nodes = {}]
         stopped == [ranks EXCEPT ![r].status = "aborted"]
     IN IF target_vertex < 0
        THEN ranks' \in {stopped, [ranks EXCEPT ![r].idx = @ + 1]}
        ELSE IF ~KernelPrecondition(R.G, R.M, no_surface, rm_vertex, target_vertex)
             THEN ranks' = stopped
             ELSE \/ /\ ~KernelPrecondition(R.G, R.M, R.S, rm_vertex, target_vertex)
                     /\ ranks' = stopped
                  \/ \E k \in {coarsen_kernel(R.G, R.M, R.S, rm_vertex, target_vertex)} :
                       ranks' =
                         [ranks EXCEPT ![r] =
                            [R EXCEPT
                               !.M = k.M,
                               !.S = k.S,
                               !.dynamic_vertex =
                                  [(IF is_owned_node(R.G, target_vertex)
                                    THEN [@ EXCEPT ![target_vertex] =
                                            coarsen_identify_kernel(R.G, k.M, k.S, target_vertex,
                                                                    L_low, L_max)]
                                    ELSE @) EXCEPT ![rm_vertex] = -1],
                               !.recalculate_collapse = FlagNeighbours(@, k.M.NNList, target_vertex),
                               !.removed = @ \cup {rm_vertex},
                               !.idx = @ + 1]]
  /\ UNCHANGED <<G, meshvars, surfvars, L_low, L_max, dynamic_vertex, recalculate_collapse,
                 loop, colour, maximal_independent_set, idx, pc, last, calls, warned, expected, sm>>

\* end of the pass on every rank: loop++ and the test loop < 100
RanksEndPass ==
  /\ pc = "collapse"
  /\ ranks # <<>>
  /\ \A r \in DOMAIN ranks :
       ranks[r].status = "ok" /\ ranks[r].idx = Len(ranks[r].maximal_independent_set)
  /\ loop' = loop + 1
  /\ pc' = IF loop + 1 < LoopCap THEN "pass" ELSE "done"
  /\ UNCHANGED <<G, meshvars, surfvars, L_low, L_max, dynamic_vertex, recalculate_collapse,
                 colour, maximal_independent_set, idx, last, calls, warned, expected, sm, ranks>>

NextRanks == RanksCall \/ RanksPass \/ (\E r \in {0, 1} : RanksCollapse(r)) \/ RanksEndPass

SpecRanks == InitRanks /\ [][NextRanks]_vars

(* ---------------------------------------------------------------------- *)
(* Properties.                                                            *)
(* ---------------------------------------------------------------------- *)
Elems == DOMAIN ENList

\* element e is not erased
Live(e) == ENList[e][1] >= 0

\* some live element contains both v and w
Share(v, w) == \E e \in Elems : Live(e) /\ {v, w} \subseteq Range(ENList[e])

Facets == DOMAIN SENList

\* facet f is not deleted
LiveF(f) == SENList[f][1] >= 0

\* the faces of element e: the complements of one vertex
Faces(e) == {Range(ENList[e]) \ {v} : v \in Range(ENList[e])}

\* number of live elements that have the face F
NFace(F) == Cardinality({e \in Elems : Live(e) /\ F \in Faces(e)})

\* P(x): the patch ids of the live facets incident to x, read off SENList
P(x) == {coplanar_ids[f] : f \in {g \in Facets : LiveF(g) /\ x \in Range(SENList[g])}}

\* a call coarsen_kernel(rm, target) is about to be made
KernelDue == pc = "collapse" /\ idx < Len(maximal_independent_set)

\* C1 (I1): in every state, and so after every coarsen_kernel call and at
\* every pass boundary, e is in NEList[v] iff e is live and v is one of the
\* vertices of e in ENList.
C1_NEListMatchesENList ==
  \A v \in Nodes, e \in Elems :
    e \in NEList[v] <=> (Live(e) /\ v \in Range(ENList[e]))

\* a kernel call has erased an element, emptied NEList of the removed vertex
\* and left the target with elements
C1_Witness ==
  /\ last # <<>>
  /\ \E e \in Elems : ~Live(e)
  /\ NEList[last[1]] = {}
  /\ NEList[last[2]] # {}

\* C2 (I2): w is in NNList[v] iff v is in NNList[w] iff some live element
\* contains both; a removed vertex is in no NNList; no NNList has duplicates.
C2_NNListMatchesElements ==
  /\ \A v \in Nodes, w \in Nodes :
       /\ (w \in Range(NNList[v])) <=> (v \in Range(NNList[w]))
       /\ (w \in Range(NNList[v])) <=> (v # w /\ Share(v, w))
  /\ \A v \in Nodes : \A i, j \in DOMAIN NNList[v] : i # j => NNList[v][i] # NNList[v][j]

\* C3 (I3): the keys of Edges are exactly the pairs (min,max) of vertices that
\* co-occur in a live element, and adjacent_elements of an edge is exactly the
\* set of live elements containing both endpoints.
C3_EdgesMatchElements ==
  /\ DOMAIN Edges = {p \in Nodes \X Nodes : p[1] < p[2] /\ Share(p[1], p[2])}
  /\ \A k \in DOMAIN Edges :
       Edges[k].adjacent_elements =
         {e \in Elems : Live(e) /\ {k[1], k[2]} \subseteq Range(ENList[e])}

\* signed volume of the tuple n in the orientation of the mesh
SignedVolume(n) == G.orientation * RawMeasure(G.ndims, G.coords, n)

\* the tuple n with every rm replaced by target
Substituted(n, rm, target) == [i \in DOMAIN n |-> IF n[i] = rm THEN target ELSE n[i]]

\* C4 (I4/P1): every live element has strictly positive signed volume in
\* every state, for every L_low, L_max and colouring; and whenever a collapse
\* rm -> target is about to be applied, every element it rewrites has
\* new volume / old volume > 10^-3.
C4_PositiveVolume ==
  /\ \A e \in Elems : Live(e) => SignedVolume(ENList[e]) > 0
  /\ KernelDue =>
       LET rm == maximal_independent_set[idx + 1]
           target == dynamic_vertex[rm]
       IN target >= 0 =>
            \A e \in NEList[rm] :
              target \notin Range(ENList[e]) =>
                1000 * SignedVolume(Substituted(ENList[e], rm, target)) > SignedVolume(ENList[e])

\* a collapse is about to be applied at a vertex that has another short edge
\* along which the collapse would invert an element
C4_Witness ==
  /\ KernelDue
  /\ LET rm == maximal_independent_set[idx + 1]
     IN /\ dynamic_vertex[rm] >= 0
        /\ \E w \in Range(NNList[rm]) :
             /\ w # dynamic_vertex[rm]
             /\ Edges[EdgeKey(rm, w)].length < L_low
             /\ \E e \in NEList[rm] :
                  /\ w \notin Range(ENList[e])
                  /\ SignedVolume(Substituted(ENList[e], rm, w)) <= 0

\* C5 (I6/P3): the vertex set of every live facet is a face of exactly one
\* live element, no two live facets have the same vertex set, and every face
\* that belongs to exactly one live element is a live facet.
C5_FacetsAreBoundaryFaces ==
  /\ \A f \in Facets : LiveF(f) => NFace(Range(SENList[f])) = 1
  /\ \A f, g \in Facets :
       (LiveF(f) /\ LiveF(g) /\ f # g) => Range(SENList[f]) # Range(SENList[g])
  /\ \A e \in Elems : Live(e) =>
       \A F \in Faces(e) :
         NFace(F) = 1 => \E f \in Facets : LiveF(f) /\ Range(SENList[f]) = F

\* C6 (I5): contains_node(v) iff v appears in a live facet, after
\* construction and after every collapse; after Surface::collapse(free,
\* target) free is not contained and target is.
C6_SurfaceNodesMatchFacets ==
  /\ \A v \in Nodes :
       contains_node(SurfaceState, v) <=>
         \E f \in Facets : LiveF(f) /\ v \in Range(SENList[f])
  /\ (last # <<>> /\ last[3]) =>
       /\ ~contains_node(SurfaceState, last[1])
       /\ contains_node(SurfaceState, last[2])

\* Surface::collapse has just run and has deleted a facet
C6_Witness ==
  /\ last # <<>> /\ last[3]
  /\ \E f \in Facets : ~LiveF(f)
  /\ \E f \in Facets : LiveF(f) /\ last[2] \in Range(SENList[f])

\* vertices that have not been removed
LiveNodes == {v \in Nodes : NNList[v] # <<>>}

\* the case analysis of is_collapsible on P, with D = ndims
CollapsibleByPatches(free, target) ==
  IF ~\E f \in Facets : LiveF(f) /\ free \in Range(SENList[f]) THEN TRUE
  ELSE IF Cardinality(P(free)) >= G.ndims THEN FALSE
  ELSE IF Cardinality(P(free)) = G.ndims - 1 THEN P(free) \subseteq P(target)
  ELSE \E p \in P(free) : P(free) = {p} /\ p \in P(target)

C8_CornerNeverRemoved ==
  \A v \in Nodes :
    Cardinality(P(v)) >= G.ndims =>
      /\ \A w \in Nodes : ~is_collapsible(SurfaceState, G.ndims, v, w)
      /\ coarsen_identify_kernel(G, MeshState, SurfaceState, v, L_low, L_max) < 0
      /\ KernelDue => maximal_independent_set[idx + 1] # v

\* a corner with an edge shorter than L_low has been refused as a removed
\* vertex and has served as the target of a collapse
C8_Witness ==
  /\ last # <<>>
  /\ Cardinality(P(last[2])) >= G.ndims
  /\ dynamic_vertex[last[2]] = -2
  /\ \E w \in Range(NNList[last[2]]) : Edges[EdgeKey(last[2], w)].length < L_low

\* what Surface::collapse(free, target) is to do to the facet list
CollapseEffect(free, target) ==
  /\ \A f \in Facets :
       LET n == SENList[f]
       IN /\ (LiveF(f) /\ {free, target} \subseteq Range(n))
               => \A i \in DOMAIN n : SENList'[f][i] = -1
          /\ (LiveF(f) /\ ~({free, target} \subseteq Range(n))) => SENList'[f][1] >= 0
          /\ (free \in Range(n) /\ target \notin Range(n))
               => SENList'[f] = Substituted(n, free, target)
          /\ free \notin Range(n) => SENList'[f] = n
  /\ coplanar_ids' = coplanar_ids
  /\ \A f \in Facets : free \notin Range(SENList'[f])

\* C9: a step that calls Surface::collapse(free, target) with
\* is_collapsible(free, target) true deletes exactly the facets containing
\* both, replaces free by target in the other facets of free, leaves all
\* other facets and all patch ids unchanged, and leaves no facet with free.
C9_CollapseRewritesFacets ==
  [][ LET free == maximal_independent_set[idx + 1]
          target == dynamic_vertex[free]
      IN (/\ KernelDue
          /\ target >= 0
          /\ contains_node(SurfaceState, free)
          /\ contains_node(SurfaceState, target)
          /\ is_collapsible(SurfaceState, G.ndims, free, target))
           => CollapseEffect(free, target) ]_vars

\* in 3D Surface::collapse has deleted two facets and renumbered others
C9_Witness ==
  /\ G.ndims = 3
  /\ last # <<>> /\ last[3]
  /\ Cardinality({f \in Facets : ~LiveF(f)}) >= 2
  /\ Cardinality({f \in Facets : LiveF(f) /\ last[2] \in Range(SENList[f])}) >= 3

\* C10: f is in SNEList[v] iff f is a live facet and v is one of its
\* vertices; so SNEList of a removed vertex is empty and no vertex lists a
\* deleted facet.
C10_SNEListMatchesFacets ==
  \A v \in Nodes, f \in Facets :
    f \in SNEList[v] <=> (LiveF(f) /\ v \in Range(SENList[f]))

\* the faces that occur in exactly one live element
BoundaryFaces == {F \in UNION {Faces(e) : e \in {x \in Elems : Live(x)}} : NFace(F) = 1}

\* a Surface has just been constructed on the current mesh
Constructed == pc \in {"ready", "reextracted"}

\* C11: after Surface construction the facets are exactly the faces that
\* occur in exactly one live element, each once, and the surface vertices are
\* the vertices of those faces; erased elements contribute nothing.
C11_BoundaryExtraction ==
  Constructed =>
    /\ {Range(SENList[f]) : f \in Facets} = BoundaryFaces
    /\ NSElements = Cardinality(BoundaryFaces)
    /\ surface_nodes = UNION BoundaryFaces

\* the normal of facet f as calculate_coplanar_ids computes it
FacetNormal(f) ==
  IF G.ndims = 2
  THEN Normal2D(G.coords[SENList[f][1]], G.coords[SENList[f][2]])
  ELSE Normal3D(G.coords[SENList[f][1]], G.coords[SENList[f][2]], G.coords[SENList[f][3]])

\* two facets share snloc - 1 vertices
AdjacentFacets(f, g) ==
  f # g /\ Cardinality(Range(SENList[f]) \cap Range(SENList[g])) = G.ndims - 1

\* the facets joined to the facets of S by one more adjacent facet g with Ok[g]
RECURSIVE FacetClosure(_, _)
FacetClosure(S, Ok) ==
  LET T == S \cup {g \in Facets : Ok[g] /\ \E f \in S : AdjacentFacets(f, g)}
  IN IF T = S THEN S ELSE FacetClosure(T, Ok)

\* f and g are joined by a chain of adjacent facets, every consecutive pair
\* within the tolerance: the closure under single coplanar steps
RECURSIVE PairwiseChain(_)
PairwiseChain(S) ==
  LET T == S \cup {g \in Facets : \E f \in S : AdjacentFacets(f, g)
                                               /\ IsCoplanar(FacetNormal(f), FacetNormal(g))}
  IN IF T = S THEN S ELSE PairwiseChain(T)

PatchIdsConsecutive ==
  /\ DOMAIN coplanar_ids = Facets
  /\ \E K \in 0..NSElements : {coplanar_ids[f] : f \in Facets} = 1..K

\* C12 as stated: after construction every facet has one patch id, the ids are
\* 1..K, and two facets have the same id iff they are joined by a chain of
\* adjacent facets in which every consecutive pair has n.n' >= tolerance
C12_PairwiseChainPatches ==
  pc = "ready" =>
    /\ PatchIdsConsecutive
    /\ \A f, g \in Facets :
         (coplanar_ids[f] = coplanar_ids[g]) <=> (g \in PairwiseChain({f}))

\* the first (lowest-index) facet of patch k
PatchSeed(k) == CHOOSE s \in Facets : coplanar_ids[s] = k /\ \A f \in Facets : coplanar_ids[f] = k => s <= f

\* C12 amended: after construction every facet has one patch id, the ids are
\* 1..K in the order of the patches' first facets, and patch k is the set of
\* facets joined to its first facet s by a chain of adjacent facets that are
\* in no earlier patch and whose normals all have n_s.n >= tolerance
C12_SeedNormalPatches ==
  pc = "ready" =>
    /\ PatchIdsConsecutive
    /\ \A k \in {coplanar_ids[f] : f \in Facets} :
         LET s == PatchSeed(k)
             Ok == [g \in Facets |-> coplanar_ids[g] >= k
                                      /\ IsCoplanar(FacetNormal(s), FacetNormal(g))]
         IN /\ \A j \in 1..(k - 1) : PatchSeed(j) < s
            /\ {f \in Facets : coplanar_ids[f] = k} = FacetClosure({s}, Ok)

\* a surface with a chain f - g - h of adjacent facets in which f.g and g.h
\* are within the tolerance and f.h is not
C12_Witness ==
  /\ pc = "ready"
  /\ \E f, g, h \in Facets :
       /\ AdjacentFacets(f, g) /\ AdjacentFacets(g, h)
       /\ IsCoplanar(FacetNormal(f), FacetNormal(g))
       /\ IsCoplanar(FacetNormal(g), FacetNormal(h))
       /\ ~IsCoplanar(FacetNormal(f), FacetNormal(h))
       /\ coplanar_ids[f] = coplanar_ids[g]
       /\ coplanar_ids[g] # coplanar_ids[h]

\* C13: if the first coarsen returned before the pass cap, a second
\* coarsen(L_low, L_max) performs no collapse and changes neither the mesh
\* nor the surface
C13_SecondCoarsenIdempotent ==
  [][calls = 2 => /\ pc' # "collapse"
                  /\ meshvars' = meshvars
                  /\ surfvars' = surfvars]_vars

\* the second call has returned on a mesh the first call has coarsened
C13_Witness == calls = 2 /\ pc = "done" /\ last # <<>>

\* the edge {v, w} lies in no boundary face of the live elements
InteriorEdge(v, w) == \A F \in BoundaryFaces : ~({v, w} \subseteq F)

\* the collapse of x onto its neighbour u is admissible: x is no corner, the
\* edge is short, the surface allows it and no rewritten element degenerates
Admissible(x, u) ==
  /\ ~is_corner_vertex(SurfaceState, G.ndims, x)
  /\ is_collapsible(SurfaceState, G.ndims, x, u)
  /\ Edges[EdgeKey(x, u)].length < L_low
  /\ \A ee \in NEList[x] \ Edges[EdgeKey(x, u)].adjacent_elements :
        ~VolumeRatioRejected(RawMeasure(G.ndims, G.coords, Substituted(ENList[ee], x, u)),
                             RawMeasure(G.ndims, G.coords, ENList[ee]))

\* the collapse of x onto u would create an edge longer than L_max
ProducesLongEdge(x, u) ==
  \E n \in Range(NNList[x]) \ {u} :
    calc_edge_length(G.ndims, G.coords, G.metric, u, n) > L_max

\* C14 (P5): when coarsen has returned below the pass cap with live elements
\* left, every interior edge has cached length >= L_low, or every admissible
\* collapse of one of its endpoints would create an edge longer than L_max
C14_ShortInteriorEdgesBlocked ==
  (pc = "done" /\ loop < LoopCap /\ LiveElements(ENList) # {}) =>
    \A key \in DOMAIN Edges :
      InteriorEdge(key[1], key[2]) =>
        \/ Edges[key].length >= L_low
        \/ \E x \in {key[1], key[2]} :
             \A u \in Range(NNList[x]) : Admissible(x, u) => ProducesLongEdge(x, u)

\* coarsen has returned after a collapse and a short interior edge is left
\* one of whose endpoints has an admissible collapse
C14_Witness ==
  /\ pc = "done" /\ loop < LoopCap /\ last # <<>>
  /\ \E key \in DOMAIN Edges :
       /\ InteriorEdge(key[1], key[2])
       /\ Edges[key].length < L_low
       /\ \E x \in {key[1], key[2]} : \E u \in Range(NNList[x]) : Admissible(x, u)

\* some vertex has both a colour and a non-negative identify result
SomeCandidate(col, dv) == \E i \in Nodes : col[i] >= 0 /\ dv[i] >= 0

\* a pass leaves the main loop exactly if its independent set is empty, and
\* then it performs no collapse
ExitIffEmptySet ==
  pc = "pass" =>
    /\ (pc' = "done") <=> ~SomeCandidate(colour', dynamic_vertex')
    /\ pc' = "done" => (meshvars' = meshvars /\ surfvars' = surfvars)

\* a return before the cap comes from a pass, never from the end of a pass
ReturnBelowCapFromPass ==
  (pc # "done" /\ pc' = "done" /\ loop' < LoopCap) => pc = "pass"

C17_CachedLengthsFresh ==
  \A key \in DOMAIN Edges :
    Edges[key].length = calc_edge_length(G.ndims, G.coords, G.metric, key[1], key[2])

\* the last kernel call rekeyed an edge and merged another one, and both
\* are in Edges
C17_Witness ==
  /\ last # <<>>
  /\ \E u \in last[4] : EdgeKey(last[2], u) \in DOMAIN Edges
  /\ \E u \in last[5] : EdgeKey(last[2], u) \in DOMAIN Edges

\* the surface find_surface extracts from the current mesh when the
\* coordinates read for the vertex -1 are g
Reextracted(g) ==
  find_surface([ndims |-> G.ndims, NNodes |-> G.NNodes, NElements |-> G.NElements,
                coords |-> (-1 :> g) @@ G.coords, metric |-> G.metric, ENList |-> ENList])

\* the vertex sets of the live facets of a surface S, each with the patch
\* (as the set of vertex sets of its facets) it belongs to
PatchesOf(S) ==
  LET live == {f \in 0..(S.NSElements - 1) : S.SENList[f][1] >= 0}
  IN {{Range(S.SENList[g]) : g \in {h \in live : S.coplanar_ids[h] = S.coplanar_ids[f]}} : f \in live}

\* C18 (L3): after Surface::collapse(v, w) for surface vertices v and w, the
\* incrementally updated Surface agrees with the surface re-extracted from
\* the mutated mesh: the boundary vertex set is the old one minus v, the live
\* facets are the re-extracted facets, grouped in the same patches
C18_CollapseAgreesWithReextraction ==
  (last # <<>> /\ last[3]) =>
    \A g \in GarbageCoords(G.ndims) :
      LET S0 == Reextracted(g)
      IN /\ surface_nodes = last[6] \ {last[1]}
         /\ surface_nodes = S0.surface_nodes
         /\ {Range(SENList[f]) : f \in {h \in Facets : LiveF(h)}}
              = {Range(S0.SENList[f]) : f \in 0..(S0.NSElements - 1)}
         /\ PatchesOf(SurfaceState) = PatchesOf(S0)

\* no edge of the mesh has cached length strictly below L_low
NoShortEdge == \A key \in DOMAIN Edges : Edges[key].length >= L_low

\* C19: if no edge has cached length below L_low when coarsen(L_low, L_max)
\* is called, the call changes neither the mesh (ENList, NNList, NEList,
\* Edges, vertex liveness) nor the Surface, and its first pass returns
\* without a collapse
C19_NoShortEdgeNoChange ==
  [][/\ pc = "ready" => (meshvars' = meshvars /\ surfvars' = surfvars)
     /\ (pc = "pass" /\ loop = 0 /\ NoShortEdge) =>
          (pc' = "done" /\ meshvars' = meshvars /\ surfvars' = surfvars)]_vars

\* coarsen has returned on a mesh without short edge that has a vertex the
\* surface would allow to be removed
C19_Witness ==
  /\ pc = "done" /\ loop = 0 /\ NoShortEdge
  /\ \E v \in Nodes : ~is_corner_vertex(SurfaceState, G.ndims, v)

\* coarsen(L_low = 1.5, L_max = 3) runs or has run on the unit cube of 6
\* tetrahedra with the metric diag(0.25,0.25,0.25)
UnitCubeScenario ==
  pc # "ready" /\ G.ndims = 3 /\ G.NNodes = 8 /\ L_low = 18 /\ L_max = 72

\* C20 as stated: in the unit cube scenario coarsen contracts one edge and
\* returns a mesh of 7 live vertices and 5 live tetrahedra with an unchanged
\* number of boundary vertices
C20_UnitCubeOneContraction ==
  (UnitCubeScenario /\ pc = "done") =>
    /\ Cardinality(LiveNodes) = 7
    /\ Cardinality(LiveElements(ENList)) = 5
    /\ Cardinality(surface_nodes) = 8

\* C20 amended: in the unit cube scenario every vertex is a corner of the
\* surface, coarsen contracts no edge and returns in its first pass: the mesh
\* keeps its 8 live vertices and 6 live tetrahedra, and the 8 boundary vertices
C20_UnitCubeUnchanged ==
  UnitCubeScenario =>
    /\ \A v \in Nodes : Cardinality(P(v)) >= G.ndims /\ (pc = "done" => dynamic_vertex[v] = -2)
    /\ last = <<>>
    /\ loop = 0 /\ pc \in {"pass", "done"}
    /\ Cardinality(LiveNodes) = 8
    /\ Cardinality(LiveElements(ENList)) = 6
    /\ Cardinality(surface_nodes) = 8

\* coarsen has returned in the unit cube scenario, every edge being short
C20_Witness ==
  /\ UnitCubeScenario /\ pc = "done"
  /\ \A key \in DOMAIN Edges : Edges[key].length < L_low

\* C16 (as stated): the warning is emitted exactly when the cap is reached;
\* an exit by an empty independent set emits no warning
C16_WarningIffCapReached == pc = "done" => (warned <=> loop = LoopCap)

\* C21: under any distance-1 colouring the collapses of a pass, applied in any
\* order, give the mesh and surface of the ascending order (as sets); each
\* collapse finds its edge in the edge set, and no vertex of the set is the
\* target of a collapse of the pass
C21_Distance1Suffices ==
  pc = "collapse" =>
    /\ idx = Len(maximal_independent_set) => AsSets(MeshState, SurfaceState) = expected
    /\ \A j \in (idx + 1)..Len(maximal_independent_set) :
         LET rm == maximal_independent_set[j]
         IN /\ dynamic_vertex[rm] >= 0
            /\ dynamic_vertex[rm] \notin Range(maximal_independent_set)
            /\ j = idx + 1 => EdgeKey(rm, dynamic_vertex[rm]) \in DOMAIN Edges

C21_Witness ==
  /\ pc = "collapse" /\ idx = 1 /\ Len(maximal_independent_set) >= 2
  /\ last # <<>> /\ last[1] = maximal_independent_set[1]
  /\ maximal_independent_set[2] < maximal_independent_set[1]
  /\ dynamic_vertex[maximal_independent_set[2]] = last[2]

\* the conditions under which v may be collapsed onto w: v is owned and no
\* surface corner, w is a neighbour outside the recv halo, the surface allows
\* the collapse, the cached length is below L_low, every element incident to
\* v and not to w keeps more than 10^-3 of its volume, no new edge exceeds L_max
IdentifyAllows(v, w) ==
  /\ is_owned_node(G, v)
  /\ Cardinality(P(v)) < G.ndims
  /\ w \in Range(NNList[v])
  /\ w \notin recv_halo(G)
  /\ CollapsibleByPatches(v, w)
  /\ EdgeKey(v, w) \in DOMAIN Edges
  /\ Edges[EdgeKey(v, w)].length < L_low
  /\ \A e \in Elems :
       (Live(e) /\ v \in Range(ENList[e]) /\ w \notin Range(ENList[e])) =>
         /\ SignedVolume(ENList[e]) > 0
         /\ 1000 * SignedVolume(Substituted(ENList[e], v, w)) > SignedVolume(ENList[e])
  /\ \A u \in Range(NNList[v]) \ {w} :
       calc_edge_length(G.ndims, G.coords, G.metric, w, u) <= L_max

ShortCandidate(v, w) ==
  /\ w \in Range(NNList[v])
  /\ w \notin recv_halo(G)
  /\ CollapsibleByPatches(v, w)
  /\ Edges[EdgeKey(v, w)].length < L_low

\* C29: the result w >= 0 of identify for v has the smallest cached length
\* among the filtered neighbours of v that pass the volume-ratio and L_max
\* checks, every filtered neighbour with a shorter edge fails one of these
\* checks, and a negative result means that no filtered neighbour passes
C29_ShortestPassingCandidate ==
  pc # "ready" =>
    \A v \in Nodes :
      LET w == coarsen_identify_kernel(G, MeshState, SurfaceState, v, L_low, L_max)
      IN /\ w >= 0 =>
              /\ ShortCandidate(v, w)
              /\ ~RejectCollapse(G, MeshState, v, w, L_max)
              /\ \A u \in Nodes :
                   (ShortCandidate(v, u) /\ ~RejectCollapse(G, MeshState, v, u, L_max)) =>
                     Edges[EdgeKey(v, w)].length <= Edges[EdgeKey(v, u)].length
         /\ (w < 0 /\ Cardinality(P(v)) < G.ndims) =>
              \A u \in Nodes : ShortCandidate(v, u) => RejectCollapse(G, MeshState, v, u, L_max)

\* identify has passed over a filtered neighbour u of v that fails a check
\* and whose edge is not longer than the edge to the target it has returned
C29_Witness ==
  /\ pc = "pass"
  /\ \E v \in Nodes :
       LET w == coarsen_identify_kernel(G, MeshState, SurfaceState, v, L_low, L_max)
       IN /\ w >= 0
          /\ dynamic_vertex[v] = w
          /\ \E u \in Nodes \ {w} :
               /\ ShortCandidate(v, u)
               /\ RejectCollapse(G, MeshState, v, u, L_max)
               /\ Edges[EdgeKey(v, u)].length <= Edges[EdgeKey(v, w)].length

\* the candidates of colour c: coloured vertices with a target
Candidates(c) == {v \in Nodes : colour[v] = c /\ colour[v] >= 0 /\ dynamic_vertex[v] >= 0}

ElemVolume(X, e) ==
  G.orientation * RawVolume(X[ENList[e][1]], X[ENList[e][2]], X[ENList[e][3]], X[ENList[e][4]])

\* v is a vertex of a face that belongs to one live element only
BoundaryVertex(v) ==
  \E e \in Elems : Live(e) /\ \E F \in Faces(e) : NFace(F) = 1 /\ v \in F

\* the last kernel smooth has run was k
KernelRan(k) == sm.pc # "idle" /\ sm.visited # {} /\ sm.lastk.kernel = k

\* the least quality, by std::min, of the elements of v under X and M
TrueMin(X, M, v) ==
  CachedMin([e \in Elems |-> ElementQuality(G.orientation, X, M, ENList, e)], SetToSeq(NEList[v]))

\* the state is as it was before the last kernel ran
AsBefore ==
  /\ G.coords = sm.lastk.before.coords
  /\ G.metric = sm.lastk.before.metric
  /\ sm.quality = sm.lastk.before.quality

\* the volume element e would have with the vertex of the last kernel at
\* the position the kernel proposed
ProposedVolume(e) ==
  MovedVolume(G.orientation, sm.lastk.before.coords, ENList, e, sm.lastk.node, sm.lastk.p)

C23_SweepsWithinMaxIterations ==
  sm.pc # "idle" =>
    /\ sm.sweeps <= sm.max_iterations
    /\ sm.visited # {} => sm.lastk.trials <= SearchCap

\* C23: smooth makes at most max(1, max_iterations) sweeps, the first one
\* and max_iterations - 1 more, and a call of the Linf kernel tries at most
\* 10 steps
C23_SweepsWithinBounds ==
  sm.pc # "idle" =>
    /\ sm.sweeps <= Max2(1, sm.max_iterations)
    /\ sm.iter = sm.sweeps - 1
    /\ sm.visited # {} => sm.lastk.trials <= SearchCap

\* smooth has returned after three sweeps and its last Linf kernel used up
\* the ten steps
C23_Witness ==
  /\ sm.pc = "done"
  /\ sm.max_iterations = 3
  /\ sm.sweeps = 3
  /\ KernelRan("optimisation Linf")
  /\ sm.lastk.trials = SearchCap

\* C24 as stated: the Laplacian kernel rejects only when every incident
\* element would have a negative volume, and commits when one would not
C24_RejectsOnlyAllNegative ==
  KernelRan("Laplacian") =>
    LET k == sm.lastk
    IN /\ ~k.moved => \A e \in NEList[k.node] : ProposedVolume(e) < 0
       /\ (\E e \in NEList[k.node] : ProposedVolume(e) >= 0) => k.moved

\* C24: the Laplacian kernel rejects exactly when some incident element
\* would have a negative volume at the proposed position; else it writes
\* the position and the interpolated metric; a rejection changes nothing
C24_RejectsIffSomeNegative ==
  KernelRan("Laplacian") =>
    LET k == sm.lastk
    IN /\ k.moved <=> \A e \in NEList[k.node] : ProposedVolume(e) >= 0
       /\ k.moved =>
            /\ G.coords = [k.before.coords EXCEPT ![k.node] = k.p]
            /\ G.metric = [k.before.metric EXCEPT ![k.node] =
                             InterpolatedMetric(G.orientation, k.before.coords, k.before.metric,
                                                ENList, NEList, k.node, k.p)]
       /\ ~k.moved => AsBefore

\* the Laplacian kernel has rejected a position at which an incident
\* element would have had a positive volume
C24_Witness ==
  /\ KernelRan("Laplacian")
  /\ ~sm.lastk.moved
  /\ \E e \in NEList[sm.lastk.node] : ProposedVolume(e) > 0

C26_LinfKernel ==
  KernelRan("optimisation Linf") =>
    LET k == sm.lastk
        worst == CachedMin(k.before.quality, SetToSeq(NEList[k.node]))
    IN /\ FLess(sm.good_q, worst) => ~k.moved
       /\ k.moved =>
            /\ \A e \in NEList[k.node] :
                 /\ FLess(worst, ElementQuality(G.orientation, G.coords, G.metric, ENList, e))
                 /\ sm.quality[e] = ElementQuality(G.orientation, G.coords, G.metric, ENList, e)
            /\ \A e \in Elems \ NEList[k.node] : sm.quality[e] = k.before.quality[e]
            /\ \A v \in Nodes \ {k.node} :
                 G.coords[v] = k.before.coords[v] /\ G.metric[v] = k.before.metric[v]
       /\ ~k.moved => AsBefore

\* the Linf kernel has moved a vertex after it left alone another one whose
\* worst cached quality is above good_q
C26_Witness ==
  /\ KernelRan("optimisation Linf")
  /\ sm.lastk.moved
  /\ G.coords[sm.lastk.node] # sm.lastk.before.coords[sm.lastk.node]
  /\ \E v \in sm.visited \ {sm.lastk.node} :
       /\ FLess(sm.good_q, CachedMin(sm.quality, SetToSeq(NEList[v])))
       /\ G.coords[v] = sm.X0[v]

\* C27: during and after smooth every live element has a positive volume
C27_PositiveVolumes ==
  sm.pc # "idle" => \A e \in Elems : Live(e) => ElemVolume(G.coords, e) > 0

Movable == UNION {Range(sm.colour_sets[c]) : c \in DOMAIN sm.colour_sets}

ColourOf(v) == CHOOSE c \in DOMAIN sm.colour_sets : v \in Range(sm.colour_sets[c])

\* the kernel call number j of the log moved a neighbour of v in sweep k
MovedNear(j, v, k) ==
  /\ sm.log[j].moved
  /\ sm.log[j].sweep = k
  /\ v \in Range(NNList[sm.log[j].node])

\* C32 as stated: a kernel call on v in a sweep k after the first has a
\* move of a neighbour of v in sweep k - 1, a move marks every neighbour
\* active, and every movable neighbour has a kernel call in the sweep after
\* the move when there is one
C32_ActiveFromPreviousSweep ==
  sm.pc # "idle" =>
    /\ \A i \in DOMAIN sm.log :
         sm.log[i].sweep > 1 =>
           \E j \in DOMAIN sm.log : MovedNear(j, sm.log[i].node, sm.log[i].sweep - 1)
    /\ (sm.log # <<>> /\ sm.lastk.moved) =>
         \A v \in Range(NNList[sm.lastk.node]) : sm.active_vertices[v] = 1
    /\ sm.pc = "done" =>
         \A j \in DOMAIN sm.log :
           (sm.log[j].moved /\ sm.log[j].sweep < sm.sweeps) =>
             \A v \in Movable \cap Range(NNList[sm.log[j].node]) :
               \E i \in DOMAIN sm.log :
                 sm.log[i].node = v /\ sm.log[i].sweep = sm.log[j].sweep + 1

\* C32: a kernel call on v in a sweep k after the first comes after a move
\* of a neighbour of v in sweep k - 1 or in sweep k, a move marks every
\* neighbour active, and every movable neighbour has a kernel call after
\* the move: in the same sweep when its colour is still to come, else in
\* the next sweep when there is one
C32_ActiveSinceLastTurn ==
  sm.pc # "idle" =>
    /\ \A i \in DOMAIN sm.log :
         sm.log[i].sweep > 1 =>
           \E j \in 1..(i - 1) :
             \/ MovedNear(j, sm.log[i].node, sm.log[i].sweep - 1)
             \/ MovedNear(j, sm.log[i].node, sm.log[i].sweep)
    /\ (sm.log # <<>> /\ sm.lastk.moved) =>
         \A v \in Range(NNList[sm.lastk.node]) : sm.active_vertices[v] = 1
    /\ sm.pc = "done" =>
         \A j \in DOMAIN sm.log :
           sm.log[j].moved =>
             \A v \in Movable \cap Range(NNList[sm.log[j].node]) :
               IF ColourOf(v) > ColourOf(sm.log[j].node)
               THEN \E i \in (j + 1)..Len(sm.log) :
                      sm.log[i].node = v /\ sm.log[i].sweep = sm.log[j].sweep
               ELSE sm.log[j].sweep < sm.sweeps =>
                      \E i \in (j + 1)..Len(sm.log) :
                        sm.log[i].node = v /\ sm.log[i].sweep = sm.log[j].sweep + 1

\* smooth has returned after a kernel call in a later sweep on a vertex none
\* of whose neighbours moved in the sweep before
C32_Witness ==
  /\ sm.pc = "done"
  /\ \E i \in DOMAIN sm.log :
       /\ sm.log[i].sweep > 1
       /\ ~\E j \in DOMAIN sm.log : MovedNear(j, sm.log[i].node, sm.log[i].sweep - 1)

\* C33: at the end of every colour class of a sweep and when smooth has
\* returned, whatever the kernel, the cache entry of every live element is
\* the quality of the element at the present coordinates and metrics
C33_CacheCurrent ==
  ((sm.pc = "sweep" /\ ~AtVertex) \/ sm.pc = "done") =>
    \A e \in Elems :
      Live(e) => sm.quality[e] = ElementQuality(G.orientation, G.coords, G.metric, ENList, e)

\* C34: when the Laplacian system of vertex v has been assembled, the entry
\* of Mesh::metric read for A[8] and q[2] is one of the six entries of v,
\* and the position is the one the six entries of v give, with entry 5 as
\* the (3,3) component
C34_LaplacianReadsOwnMetric ==
  (KernelRan("Laplacian") \/ KernelRan("smart Laplacian")) =>
    LET k == sm.lastk
    IN /\ k.m6 \div 6 = k.node
       /\ k.p = laplacian_p(k.before.coords, k.before.metric, NNList, k.node,
                            k.before.metric[k.node][6])

\* two kernel calls of the log belong to one colour class of one sweep
SameClass(i, j) ==
  /\ i < j
  /\ sm.log[i].sweep = sm.log[j].sweep
  /\ ColourOf(sm.log[i].node) = ColourOf(sm.log[j].node)

\* C36: two kernels of one colour class of one sweep, which run in parallel
\* in any order, never write the same coordinates, metric or cache entry,
\* and neither reads an entry the other writes
C36_RaceFree ==
  sm.pc # "idle" =>
    \A i, j \in DOMAIN sm.log :
      SameClass(i, j) =>
        LET a == sm.log[i].access
            b == sm.log[j].access
        IN /\ a.writes \cap (b.reads \cup b.writes) = {}
           /\ b.writes \cap a.reads = {}

\* good_q as init_cache computes it from the mesh smooth was called on
MeanQuality ==
  InitGoodQ(InitQuality(G.orientation, sm.X0, sm.M0, ENList), ENList)

\* C39: in a call of smooth with quality_tol > 0 the threshold good_q of the
\* Linf kernel is quality_tol, and it is the mean of the cached qualities
\* only in a call with quality_tol <= 0
C39_ToleranceHonoured ==
  KernelRan("optimisation Linf") =>
    sm.good_q = IF sm.quality_tol > 0 THEN sm.quality_tol ELSE MeanQuality

\* no colour set was made: every vertex is skipped by init_cache
NoMovableVertex == sm.pc # "idle" /\ DOMAIN sm.colour_sets = {}

\* C40: the colour smooth reads as max_colour is a key of the colour-set
\* map (nothing is read from an empty map), and on a mesh with no movable
\* vertex no kernel is called and smooth returns with the coordinates and
\* the metrics it was called with
C40_SafeWithoutMovable ==
  /\ sm.pc # "idle" => sm.max_colour \in DOMAIN sm.colour_sets
  /\ NoMovableVertex =>
       /\ sm.log = <<>>
       /\ sm.visited = {}
       /\ G.coords = sm.X0
       /\ G.metric = sm.M0

\* what coarsen_identify_kernel returns for v on the mesh and the surface of
\* the state
FreshTarget(v) == coarsen_identify_kernel(G, MeshState, SurfaceState, v, L_low, L_max)

\* the stored target of the vertex the next call of coarsen_kernel removes
\* is the fresh one
FreshAtKernel ==
  KernelDue =>
    LET v == maximal_independent_set[idx + 1]
    IN dynamic_vertex[v] >= 0 => dynamic_vertex[v] = FreshTarget(v)

\* at the head of a pass every live vertex that is not flagged for
\* recalculation has the fresh target stored, so that after the flagged
\* ones are identified again the selection reads fresh targets only
FreshAtSelection ==
  pc = "pass" =>
    \A v \in LiveNodes : ~recalculate_collapse[v] => dynamic_vertex[v] = FreshTarget(v)

\* C37: no stale collapse is applied: the target of a selected vertex is
\* what coarsen_identify_kernel returns when coarsen_kernel is called, and
\* the targets the selection of a pass reads are fresh
C37_NoStaleCollapse == FreshAtKernel /\ FreshAtSelection

\* in a pass after the first, coarsen_kernel is due for a selected vertex
\* after an earlier collapse of the same pass, which changed what identify
\* returns for a vertex that is flagged
C37_Witness ==
  /\ KernelDue
  /\ loop >= 1
  /\ idx >= 1
  /\ dynamic_vertex[maximal_independent_set[idx + 1]] >= 0
  /\ \E v \in LiveNodes : recalculate_collapse[v] /\ dynamic_vertex[v] # FreshTarget(v)

\* the number of vertices coarsen has deleted
Deleted == G.NNodes - Cardinality(LiveNodes)

\* every pass that went on to the collapses had a vertex to delete, every
\* collapse applied so far deleted one vertex, and none was created
PassesDelete ==
  /\ DOMAIN NNList = 0..(G.NNodes - 1)
  /\ pc = "collapse" => (maximal_independent_set # <<>> /\ Deleted >= loop + idx)
  /\ pc \in {"pass", "done"} => Deleted >= loop

\* C38 as stated: every pass that does not leave the loop deletes a vertex
\* and creates none, and the loop is left by an empty independent set
C38_EndsByEmptySet ==
  /\ PassesDelete
  /\ pc = "done" => maximal_independent_set = <<>>

\* C38: every pass that does not leave the loop deletes a vertex and
\* creates none, so there are at most as many such passes as live vertices,
\* and the loop is left by an empty independent set or, after 100 passes
\* that each deleted a vertex, by the cap
C38_EndsByEmptySetOrCap ==
  /\ PassesDelete
  /\ pc = "done" => (maximal_independent_set = <<>> \/ loop = LoopCap)
  /\ loop <= Cardinality(LiveNodes) + Deleted

\* coarsen has returned after passes that each deleted one vertex, leaving
\* the loop by the cap with a vertex still selected
C38_Witness ==
  /\ pc = "done"
  /\ loop = LoopCap
  /\ maximal_independent_set # <<>>
  /\ Deleted = LoopCap

\* the local number on rank r of the vertex with the global number g
LocalOf(r, g) == CHOOSE l \in DOMAIN ranks[r].lnn2gnn : ranks[r].lnn2gnn[l] = g

\* the number of vertices rank r selected itself in this pass: they are the
\* head of its maximal_independent_set, the received ones follow
NOwn(r) == Len(ranks[r].maximal_independent_set) - Len(ranks[r].got)

\* the pairs <<r, v>> of a rank and a vertex it selected in this pass that
\* the other rank knew at the head of the pass
SelectedHalo ==
  UNION {{<<r, ranks[r].maximal_independent_set[i]>> :
            i \in {j \in 1..NOwn(r) :
                     ranks[r].lnn2gnn[ranks[r].maximal_independent_set[j]]
                       \in ranks[1 - r].known0}} :
         r \in DOMAIN ranks}

\* the elements and the facets of vertex v on rank r, in global numbers
GlobalElements(r, v) ==
  {{ranks[r].lnn2gnn[n] : n \in Range(ranks[r].M.ENList[e])} : e \in ranks[r].M.NEList[v]}

GlobalFacets(r, v) ==
  {{ranks[r].lnn2gnn[n] : n \in Range(ranks[r].S.SENList[f])} : f \in ranks[r].S.SNEList[v]}

\* the collapse phase of a pass starts on every rank
PhaseStarts ==
  /\ ranks # <<>>
  /\ pc = "collapse"
  /\ \A r \in DOMAIN ranks :
       ranks[r].idx = 0 /\ ranks[r].removed = {} /\ ranks[r].status = "ok"

\* when the collapse phase starts, the other rank has received the pair of
\* every selected halo vertex and holds the vertex, its target and their edge
PairReceived ==
  PhaseStarts =>
    \A rv \in SelectedHalo :
       LET r == rv[1]
           p == 1 - r
           g == ranks[r].lnn2gnn[rv[2]]
           t == ranks[r].lnn2gnn[ranks[r].dynamic_vertex[rv[2]]]
       IN /\ \E j \in DOMAIN ranks[p].got :
               /\ ranks[p].lnn2gnn[ranks[p].got[j][1]] = g
               /\ ranks[p].lnn2gnn[ranks[p].got[j][2]] = t
          /\ t \in Range(ranks[p].lnn2gnn)
          /\ EdgeKey(LocalOf(p, g), LocalOf(p, t)) \in DOMAIN ranks[p].M.Edges

\* when the collapse phase starts, the other rank holds every element and
\* every facet that the owner of a selected halo vertex has around it
BallReceived ==
  PhaseStarts =>
    \A rv \in SelectedHalo :
       LET r == rv[1]
           p == 1 - r
           g == ranks[r].lnn2gnn[rv[2]]
       IN /\ GlobalElements(r, rv[2]) \subseteq GlobalElements(p, LocalOf(p, g))
          /\ GlobalFacets(r, rv[2]) \subseteq GlobalFacets(p, LocalOf(p, g))

\* no rank stops at a received collapse, and after the pass the vertex is
\* erased on its owner and on the other rank
AppliedEverywhere ==
  ranks # <<>> =>
    /\ \A r \in DOMAIN ranks : ranks[r].status = "aborted" => ranks[r].idx < NOwn(r)
    /\ (pc \in {"pass", "done"} /\ loop >= 1) =>
         \A rv \in SelectedHalo :
            /\ ranks[rv[1]].M.NNList[rv[2]] = <<>>
            /\ ranks[1 - rv[1]].M.NNList[LocalOf(1 - rv[1], ranks[rv[1]].lnn2gnn[rv[2]])] = <<>>

\* the target of a received collapse that is still to be applied has not
\* been removed on the rank in this pass
TargetNotRemoved ==
  (ranks # <<>> /\ pc = "collapse") =>
    \A p \in DOMAIN ranks :
       \A j \in DOMAIN ranks[p].got :
          NOwn(p) + j > ranks[p].idx =>
            /\ ranks[p].got[j][2] \notin ranks[p].removed
            /\ ranks[p].M.NNList[ranks[p].got[j][2]] # <<>>

\* C35: for every halo vertex v that its owner selects in a pass with target
\* t, the other rank that knows v receives the pair of global numbers with
\* every vertex, element and facet of the ball of v, holds v, t and the edge
\* (v,t) when the collapse phase starts, applies the collapse in that pass so
\* that v is erased on both ranks after it, and no received collapse has a
\* target that the rank removed in that pass
C35_RanksAgree ==
  /\ PairReceived
  /\ BallReceived
  /\ AppliedEverywhere
  /\ TargetNotRemoved

====
